---- MODULE Spec2Model ----
(***************************************************************************)
(* Hiking routes manager: the route API (src/app/api/route), the route     *)
(* editors (RouteForm, RouteFormUpdate) and the distance-band key          *)
(* normalizer, modelled as state machines over JSON-like values.           *)
(***************************************************************************)
EXTENDS Integers, Sequences, FiniteSets, TLC

VARIABLES
    avgDailyDistance,  \* Route.avgDailyDistance of the stored record under edit (raw JSON)
    apiBands,          \* avg_daily_distance of the last API response, as received by the page
    formBands,         \* avg_daily_distance held by the mounted editor form
    payloadBands,      \* avg_daily_distance in the body of the last submitted request
    submittedBands,    \* the validated form data handed to the last onSubmit
    editor,            \* which editor is mounted: "RouteFormUpdate" or "RouteForm"
    phase,             \* position in the load / edit / save / read-back chain
    store,             \* the Route collection: the stored records, in insertion order
    request,           \* the last request the API handled: method, path id and JSON body
    response,          \* the response to it: status and JSON body
    formRoute,         \* route_id, route_name and stages held by the mounted editor form
    submittedRoute,    \* the validated route handed to onSubmit, undefined when none was
    puts,              \* the updates in flight: per request its position, target id, body,
                       \* update count and response; and the order of the writes
    services,          \* the services list of the facility a ServicesSelectInput edits
    selected,          \* the option its select element holds (useState)
    pasted,            \* the text the import box of RouteForm last handed to handleJsonPaste,
                       \* and whether the handler raised an error
    submission,        \* RouteFormUpdate: its targetRouteId prop, submissionStatus, and the
                       \* position of onSubmit
    page               \* RoutesPage: loading, error, routes, and the fetches in flight

normVars == <<avgDailyDistance, apiBands, formBands, payloadBands, submittedBands,
              editor, phase>>

apiVars == <<store, request, response>>

formVars == <<formRoute, submittedRoute>>

concVars == <<puts>>

servicesVars == <<services, selected>>
pasteVars == <<pasted>>
submissionVars == <<submission>>
pageVars == <<page>>

\* The variables outside the editors and the sequential API.
extraVars == <<concVars, servicesVars, pasteVars, submissionVars, pageVars>>

vars == <<normVars, apiVars, formVars, extraVars>>

\* Longest distance-band sequence the model draws or the editors grow.
MaxBands == 2

(***************************************************************************)
(* JavaScript scalar values, tagged by their typeof.                       *)
(***************************************************************************)
Undef == [t |-> "undefined", s |-> "", n |-> 0]
Null == [t |-> "null", s |-> "", n |-> 0]
Str(x) == [t |-> "string", s |-> x, n |-> 0]
Num(k) == [t |-> "number", s |-> "", n |-> k]

Bool(b) == [t |-> "boolean", s |-> "", n |-> IF b THEN 1 ELSE 0]

IsString(v) == v.t = "string"
IsNullish(v) == v.t \in {"undefined", "null"}
\* JavaScript truthiness of a scalar: "", 0, null and undefined are falsy.
Truthy(v) == \/ v.t = "string" /\ v.s # ""
             \/ v.t = "number" /\ v.n # 0
             \/ v.t = "boolean" /\ v.n = 1
             \/ v.t \in {"array", "object"}
\* a || b
JsOr(a, b) == IF Truthy(a) THEN a ELSE b
\* a && b
JsAnd(a, b) == IF Truthy(a) THEN b ELSE a
\* a ?? b
JsNullish(a, b) == IF IsNullish(a) THEN b ELSE a

(***************************************************************************)
(* A distance-band entry is a JSON object whose own keys are ordered       *)
(* (insertion order): a sequence of [k, v] pairs with distinct keys.       *)
(***************************************************************************)
Pair(key, val) == [k |-> key, v |-> val]
Has(o, key) == \E i \in 1..Len(o) : o[i].k = key
Get(o, key) == IF Has(o, key)
               THEN o[CHOOSE i \in 1..Len(o) : o[i].k = key].v
               ELSE Undef
KeySet(o) == {o[i].k : i \in 1..Len(o)}

DynPrefix == "avg_daily_distance_"
\* The suffixes that follow the prefix in the keys the model draws.
Suffixes == {ToString(i) : i \in 1..(MaxBands + 1)} \cup {"x"}
DynKey(suffix) == DynPrefix \o suffix
\* key.startsWith("avg_daily_distance_")
StartsWithDynPrefix(key) == \E suf \in Suffixes : key = DynKey(suf)
\* `avg_daily_distance_${idx + 1}` for the 0-based idx
PositionKey(idx) == DynPrefix \o ToString(idx + 1)

\* Object.keys(record).find((key) => key.startsWith("avg_daily_distance_"))
FindDynamicKey(record) ==
    IF \E i \in 1..Len(record) : StartsWithDynPrefix(record[i].k)
    THEN LET first == CHOOSE i \in 1..Len(record) :
                          /\ StartsWithDynPrefix(record[i].k)
                          /\ \A j \in 1..(i - 1) : ~StartsWithDynPrefix(record[j].k)
         IN  Str(record[first].k)
    ELSE Undef

\* JSON.stringify / NextResponse.json of an object: keys whose value is undefined
\* are left out.
JsonObject(o) == SelectSeq(o, LAMBDA p : p.v.t # "undefined")
JsonArray(items) == [i \in 1..Len(items) |-> JsonObject(items[i])]

NumericKeys == <<"minimum_km", "minimum_mile", "maximum_km", "maximum_mile", "days">>
\* record.minimum_km, ..., record.days copied under the same keys
NumericFields(record) ==
    [i \in 1..Len(NumericKeys) |-> Pair(NumericKeys[i], Get(record, NumericKeys[i]))]

\* A JSON array value: the sequence q, tagged so that it can stand where a scalar can.
Arr(q) == [t |-> "array", a |-> q]
\* Array.isArray(x)
IsArray(x) == x.t = "array"

(***************************************************************************)
(* Key normalizer of the API (api/route/route.ts and api/route/[id]).      *)
(***************************************************************************)
\* A normalizer that reads the alias keys only and never the canonical `label`.
normalizeItemIgnoringLabel(record) ==
    LET rangeValue == IF IsString(Get(record, "range_value"))
                      THEN Get(record, "range_value") ELSE Null
        dynamicKey == FindDynamicKey(record)
        dynamicLabel == IF Truthy(dynamicKey) /\ IsString(Get(record, dynamicKey.s))
                        THEN Get(record, dynamicKey.s) ELSE Null
    IN  <<[k |-> "label", v |-> JsOr(JsOr(rangeValue, dynamicLabel), Str(""))]>>
        \o [i \in 1..5 |-> [k |-> <<"minimum_km", "minimum_mile", "maximum_km",
                                     "maximum_mile", "days">>[i],
                             v |-> Get(record, <<"minimum_km", "minimum_mile", "maximum_km",
                                                 "maximum_mile", "days">>[i])]]

\* A normalizer that resolves the label and leaves the alias keys in the entry.
normalizeItemKeepingAlias(record) ==
    <<[k |-> "label",
       v |-> IF IsString(Get(record, "label")) /\ Get(record, "label").s # ""
             THEN Get(record, "label")
             ELSE IF IsString(Get(record, "range_value")) THEN Get(record, "range_value")
             ELSE Str("")]>>
    \o SelectSeq(record, LAMBDA p : p.k # "label")

normalizeAvgDailyDistanceItem(record) ==
    LET directLabel == IF IsString(Get(record, "label")) THEN Get(record, "label") ELSE Null
        rangeValue == IF IsString(Get(record, "range_value"))
                      THEN Get(record, "range_value") ELSE Null
        dynamicKey == FindDynamicKey(record)
        dynamicLabel == IF Truthy(dynamicKey) /\ IsString(Get(record, dynamicKey.s))
                        THEN Get(record, dynamicKey.s) ELSE Null
    IN  <<Pair("label", JsOr(JsOr(JsOr(directLabel, rangeValue), dynamicLabel), Str("")))>>
        \o NumericFields(record)

\* A normalizer that returns the entries in the opposite order.
normalizeAvgDailyDistanceReversed(items) ==
    IF ~IsArray(items) THEN <<>>
    ELSE [i \in 1..Len(items.a) |->
             normalizeAvgDailyDistanceItem(items.a[Len(items.a) + 1 - i])]

normalizeAvgDailyDistance(items) ==
    IF ~IsArray(items) THEN <<>>
    ELSE [i \in 1..Len(items.a) |-> normalizeAvgDailyDistanceItem(items.a[i])]

(***************************************************************************)
(* Key normalizer of the update editor (RouteFormUpdate).                  *)
(***************************************************************************)
normalizeInitialDataItem(record) ==
    LET dynamicKey == FindDynamicKey(record)
        dynamicLabel == IF Truthy(dynamicKey) /\ IsString(Get(record, dynamicKey.s))
                        THEN Get(record, dynamicKey.s) ELSE Str("")
        label == JsOr(JsOr(JsOr(JsAnd(Bool(IsString(Get(record, "label"))),
                                      Get(record, "label")),
                                JsAnd(Bool(IsString(Get(record, "range_value"))),
                                      Get(record, "range_value"))),
                           dynamicLabel),
                      Str(""))
    IN  <<Pair("range_value", label)>> \o NumericFields(record)

\* normalizedAvgDaily of normalizeInitialData: (input.avg_daily_distance || []).map(...)
normalizeInitialData(items) ==
    LET list == IF IsArray(items) THEN items.a ELSE <<>>
    IN  [i \in 1..Len(list) |-> normalizeInitialDataItem(list[i])]

(***************************************************************************)
(* Denormalizers: the editors' onSubmit transforms.                        *)
(***************************************************************************)
\* A filter that drops the dynamic keys and keeps the range_value alias.
CleanRestKeepingAlias(item) == SelectSeq(item, LAMBDA p : ~StartsWithDynPrefix(p.k))

\* Object.entries(item).filter(([k]) => !k.startsWith("avg_daily_distance_") && k !== "range_value")
CleanRest(item) ==
    SelectSeq(item, LAMBDA p : ~StartsWithDynPrefix(p.k) /\ p.k # "range_value")

\* A denormalizer that emits the positional key with an empty label.
transformedItemDroppingLabel(item, idx) ==
    <<[k |-> DynPrefix \o ToString(idx + 1), v |-> Str("")]>>
    \o SelectSeq(item, LAMBDA p : ~StartsWithDynPrefix(p.k) /\ p.k # "range_value")

\* RouteFormUpdate.onSubmit, the map callback; idx is the 0-based position.
transformedAvgDailyItem(item, idx) ==
    LET rangeValue == JsOr(JsOr(Get(item, "range_value"), Get(item, PositionKey(idx))),
                           Str(""))
    IN  <<Pair(PositionKey(idx), rangeValue)>> \o CleanRest(item)

transformedAvgDaily(data) ==
    LET list == IF IsArray(data) THEN data.a ELSE <<>>
    IN  [i \in 1..Len(list) |-> transformedAvgDailyItem(list[i], i - 1)]

\* RouteForm.onSubmit, the map callback of stage.avg_daily_distance.
transformedStageAvgDailyItem(item, idx) ==
    LET rangeValue == JsOr(Get(item, "range_value"), Get(item, PositionKey(idx)))
    IN  <<Pair(PositionKey(idx), rangeValue)>> \o CleanRest(item)

transformedStageAvgDaily(data) ==
    [i \in 1..Len(data) |-> transformedStageAvgDailyItem(data[i], i - 1)]

(***************************************************************************)
(* Validation of the editors' distance-band entries (zod routeSchema).     *)
(***************************************************************************)
\* Number(value) for the strings the model draws; a string outside is NaN.
NumericStrings == {"", "0", "5"}
NumberOfString(str) == IF str = "5" THEN 5 ELSE 0

\* z.coerce.number().optional(): undefined passes; anything else goes through Number().
CoerceOk(v) == \/ v.t \in {"undefined", "number", "null", "boolean"}
               \/ v.t = "string" /\ v.s \in NumericStrings
CoerceNumber(v) ==
    CASE v.t = "undefined" -> Undef
      [] v.t = "number" -> v
      [] v.t = "string" -> Num(NumberOfString(v.s))
      [] OTHER -> Num(v.n)

\* One entry of routeSchema.avg_daily_distance (RouteFormUpdate): z.object strips
\* the keys it does not name; range_value is z.string().optional().
ZodBandOk(item) ==
    /\ Get(item, "range_value").t \in {"string", "undefined"}
    /\ \A i \in 1..Len(NumericKeys) : CoerceOk(Get(item, NumericKeys[i]))
ZodBand(item) ==
    JsonObject(<<Pair("range_value", Get(item, "range_value"))>>
               \o [i \in 1..Len(NumericKeys) |->
                      Pair(NumericKeys[i], CoerceNumber(Get(item, NumericKeys[i])))])

\* The resolver of the mounted editor: RouteFormUpdate parses with z.object,
\* RouteForm with z.record(z.string(), z.any()), which keeps every key.
ResolverOk(ed, bands) ==
    ed = "RouteFormUpdate" => \A i \in 1..Len(bands) : ZodBandOk(bands[i])
ResolverData(ed, bands) ==
    IF ed = "RouteFormUpdate" THEN [i \in 1..Len(bands) |-> ZodBand(bands[i])] ELSE bands

(***************************************************************************)
(* The distance-band entries a client may hold or store.  The API stores   *)
(* avg_daily_distance as raw JSON, so every entry below can be a stored    *)
(* entry; the same entries can be pasted into RouteForm.                   *)
(***************************************************************************)
LabelChoices == {<<>>} \cup {<<Pair("label", v)>> : v \in {Str(""), Str("A")}}
RangeChoices == {<<>>, <<Pair("range_value", Str("B"))>>}
DynChoices == {<<>>, <<Pair(DynKey("1"), Str("C"))>>}
AllNumerics ==
    <<Pair("minimum_km", Num(1)), Pair("minimum_mile", Num(2)), Pair("maximum_km", Num(3)),
      Pair("maximum_mile", Num(4)), Pair("days", Num(5))>>
RawBands ==
    {l \o r \o d : l \in LabelChoices, r \in RangeChoices, d \in DynChoices}
    \cup {<<Pair(DynKey("2"), Str("C"))>>,
          <<Pair(DynKey("x"), Str("C"))>>,
          <<Pair(DynKey("1"), Num(7)), Pair(DynKey("2"), Str("D"))>>,
          <<Pair("label", Num(1)), Pair("range_value", Str("B"))>>,
          <<Pair("label", Str("A"))>> \o AllNumerics,
          <<Pair(DynKey("1"), Str("C"))>> \o AllNumerics}
RECURSIVE SeqsUpTo(_, _)
SeqsUpTo(S, n) ==
    IF n = 0 THEN {<<>>}
    ELSE LET shorter == SeqsUpTo(S, n - 1)
         IN  shorter \cup {Append(q, x) : q \in shorter, x \in S}
RawBandSeqs == SeqsUpTo(RawBands, MaxBands)

\* append({ range_value: "", minimum_km: 0, ..., days: 0 })
BlankBand ==
    <<Pair("range_value", Str(""))>>
    \o [i \in 1..Len(NumericKeys) |-> Pair(NumericKeys[i], Num(0))]

RemoveAt(q, k) == [i \in 1..(Len(q) - 1) |-> IF i < k THEN q[i] ELSE q[i + 1]]

\* No request handled yet.
NoRequest == [op |-> "none", id |-> "", body |-> Undef]
NoResponse == [status |-> 0, body |-> Undef]

\* No update in flight.
IdlePut == [pc |-> "idle", id |-> "", body |-> Undef, count |-> 0, response |-> NoResponse]
NoPuts == [p |-> <<IdlePut, IdlePut>>, order |-> <<>>, before |-> <<>>]

\* The variables outside the editors and the sequential API, at rest.
\* Nothing was pasted; no RouteFormUpdate and no RoutesPage is mounted.
NoPaste == [text |-> <<>>, raised |-> FALSE]
NoSubmission == [targetRouteId |-> "", submissionStatus |-> "idle", pc |-> "unmounted"]
NoPage ==
    [routes |-> <<>>, loading |-> TRUE, error |-> Null, selectedRoute |-> "", pc |-> "unmounted",
     lastFetch |-> "none"]

ExtraInit ==
    /\ puts = NoPuts
    /\ services = <<>>
    /\ selected = ""
    /\ pasted = NoPaste
    /\ submission = NoSubmission
    /\ page = NoPage

(***************************************************************************)
(* The load / edit / save / read-back chain of the distance bands.         *)
(***************************************************************************)
InitNorm ==
    /\ store = <<>>
    /\ ExtraInit
    /\ request = NoRequest
    /\ response = NoResponse
    /\ formRoute = <<>>
    /\ submittedRoute = Undef
    /\ apiBands = <<>>
    /\ formBands = <<>>
    /\ payloadBands = <<>>
    /\ submittedBands = <<>>
    /\ \/ /\ editor = "RouteFormUpdate"
          /\ phase = "stored"
          /\ avgDailyDistance \in RawBandSeqs
       \/ /\ editor = "RouteForm"
          /\ phase = "editing"
          /\ avgDailyDistance = <<>>

\* GET /api/route and GET /api/route/[id]: the stored bands leave normalized.
\* "fetched" is a read of bands a client stored, "refetched" the read-back of bands
\* the editor saved.
ApiGet ==
    /\ editor = "RouteFormUpdate"
    /\ phase \in {"stored", "saved"}
    /\ apiBands' = JsonArray(normalizeAvgDailyDistance(Arr(avgDailyDistance)))
    /\ phase' = IF phase = "stored" THEN "fetched" ELSE "refetched"
    /\ UNCHANGED <<apiVars, formVars, extraVars, avgDailyDistance, formBands, payloadBands, submittedBands, editor>>

\* handleOpenUpdate: RouteFormUpdate mounts with initialData = the fetched route.
EditorLoad ==
    /\ editor = "RouteFormUpdate"
    /\ phase \in {"fetched", "refetched"}
    /\ formBands' = normalizeInitialData(Arr(apiBands))
    /\ phase' = "editing"
    /\ UNCHANGED <<apiVars, formVars, extraVars, avgDailyDistance, apiBands, payloadBands, submittedBands, editor>>

\* handleJsonPaste of RouteForm: setValue("stages", json.stages); the model follows
\* the avg_daily_distance of one pasted stage.  The pasted value replaces the field
\* whatever it held, so pasting over the empty form reaches every state a paste reaches.
\* (The textarea that calls the handler is commented out in the component's JSX.)
handleJsonPaste(bands) ==
    /\ editor = "RouteForm"
    /\ phase = "editing"
    /\ formBands = <<>>
    /\ formBands' = bands
    /\ UNCHANGED <<apiVars, formVars, extraVars, avgDailyDistance, apiBands, payloadBands, submittedBands, editor, phase>>

AppendBand ==
    /\ phase = "editing"
    /\ Len(formBands) < MaxBands
    /\ formBands' = Append(formBands, BlankBand)
    /\ UNCHANGED <<apiVars, formVars, extraVars, avgDailyDistance, apiBands, payloadBands, submittedBands, editor, phase>>

RemoveBand(k) ==
    /\ phase = "editing"
    /\ k \in 1..Len(formBands)
    /\ formBands' = RemoveAt(formBands, k)
    /\ UNCHANGED <<apiVars, formVars, extraVars, avgDailyDistance, apiBands, payloadBands, submittedBands, editor, phase>>

\* handleSubmit(onSubmit): the resolver validates, onSubmit builds the payload and
\* sends body: JSON.stringify(payload).
Submit ==
    /\ phase = "editing"
    /\ ResolverOk(editor, formBands)
    /\ submittedBands' = ResolverData(editor, formBands)
    /\ payloadBands' =
          IF editor = "RouteFormUpdate"
          THEN JsonArray(transformedAvgDaily(Arr(ResolverData(editor, formBands))))
          ELSE JsonArray(transformedStageAvgDaily(ResolverData(editor, formBands)))
    /\ phase' = "submitted"
    /\ UNCHANGED <<apiVars, formVars, extraVars, avgDailyDistance, apiBands, formBands, editor>>

\* PUT /api/route/[id] stores avgDailyDistance: { set: incomingRoute.avg_daily_distance
\* || [] }.  The payload and the validated data were locals of onSubmit.
StoreBands ==
    /\ editor = "RouteFormUpdate"
    /\ phase = "submitted"
    /\ avgDailyDistance' = payloadBands
    /\ payloadBands' = <<>>
    /\ submittedBands' = <<>>
    /\ phase' = "saved"
    /\ UNCHANGED <<apiVars, formVars, extraVars, apiBands, formBands, editor>>

\* RouteForm stays mounted after its request completes and can be edited again.
EditAgain ==
    /\ editor = "RouteForm"
    /\ phase = "submitted"
    /\ payloadBands' = <<>>
    /\ submittedBands' = <<>>
    /\ phase' = "editing"
    /\ UNCHANGED <<apiVars, formVars, extraVars, avgDailyDistance, apiBands, formBands, editor>>

NextNorm ==
    \/ ApiGet
    \/ EditorLoad
    \/ \E bands \in RawBandSeqs : handleJsonPaste(bands)
    \/ AppendBand
    \/ \E k \in 1..MaxBands : RemoveBand(k)
    \/ Submit
    \/ StoreBands
    \/ EditAgain

SpecNorm == InitNorm /\ [][NextNorm]_vars

(***************************************************************************)
(* The route API: api/route (GET, POST) and api/route/[id] (GET, PUT).     *)
(* A JSON object is a sequence of [k, v] pairs; where an object stands as  *)
(* a value it is tagged Obj, an array is tagged Arr and holds its elements *)
(* (objects untagged, scalars tagged).  A stored Route is a record with    *)
(* the fields of the Prisma model.                                         *)
(***************************************************************************)
\* Most records the collection grows to.
MaxRoutes == 2

Obj(o) == [t |-> "object", o |-> o]
\* x?.key, and x.key of an object
OptGet(x, key) == IF x.t = "object" THEN Get(x.o, key) ELSE Undef
\* (x || []) of an array-valued field, as the sequence of its elements
OrEmpty(x) == JsOr(x, Arr(<<>>)).a

\* A body reader that reads an empty envelope as an empty route object.
IncomingRouteOrEmpty(body) ==
    IF IsArray(OptGet(body, "routes"))
    THEN IF Len(OptGet(body, "routes").a) = 0 THEN Obj(<<>>)
         ELSE Obj(OptGet(body, "routes").a[1])
    ELSE body

\* A body reader that takes the last element of the envelope.
IncomingRouteLast(body) ==
    IF IsArray(OptGet(body, "routes"))
    THEN IF Len(OptGet(body, "routes").a) = 0 THEN Undef
         ELSE Obj(OptGet(body, "routes").a[Len(OptGet(body, "routes").a)])
    ELSE body

\* Array.isArray(body?.routes) ? body.routes[0] : body
IncomingRoute(body) ==
    LET routes == OptGet(body, "routes")
    IN  IF IsArray(routes)
        THEN IF Len(routes.a) = 0 THEN Undef ELSE Obj(routes.a[1])
        ELSE body

formattedFacility(f) ==
    [index |-> JsNullish(Get(f, "index"), Num(0)),
     name |-> JsNullish(Get(f, "name"), Str("")),
     distance |-> JsNullish(Get(f, "distance"), Str("")),
     services |-> JsOr(Get(f, "services"), Arr(<<>>))]

formattedAccommodation(a) ==
    [name |-> JsNullish(Get(a, "name"), Str("")),
     priceCategory |-> JsNullish(Get(a, "price_category"), Str("")),
     contactUrl |-> JsNullish(Get(a, "contact_url"), Null),
     contactPhone |-> JsNullish(Get(a, "contact_phone"), Null),
     lat |-> JsNullish(Get(a, "lat"), Null),
     long |-> JsNullish(Get(a, "long"), Null)]

\* The map callback of formattedStages (the same in POST and PUT).
formattedStage(stage) ==
    LET details == Get(stage, "details")
        facilities == OrEmpty(Get(stage, "facilities"))
        accommodations == OrEmpty(Get(stage, "accommodations"))
    IN  [stageNumber |-> JsNullish(Get(stage, "stage_number"), Num(0)),
         stageName |-> JsNullish(Get(stage, "stage_name"), Str("")),
         distanceKm |-> JsNullish(Get(stage, "distance_km"), Num(0)),
         distanceMiles |-> JsNullish(Get(stage, "distance_miles"), Num(0)),
         gpx |-> JsNullish(Get(stage, "gpx"), Str("")),
         details |->
            [totalDistance |-> JsNullish(OptGet(details, "total_distance"), Str("")),
             totalTime |-> JsNullish(OptGet(details, "total_time"), Str("")),
             accumulatedAscent |-> JsNullish(OptGet(details, "accumulated_ascent"), Str("")),
             accumulatedDescent |-> JsNullish(OptGet(details, "accumulated_descent"), Str("")),
             walkingSurface |-> JsOr(OptGet(details, "walking_surface"), Arr(<<>>)),
             elevationProfile |-> JsNullish(OptGet(details, "elevation_profile"), Str("")),
             challenges |-> JsOr(OptGet(details, "challenges"), Arr(<<>>)),
             highlights |-> JsOr(OptGet(details, "highlights"), Arr(<<>>))],
         facilities |-> [i \in 1..Len(facilities) |-> formattedFacility(facilities[i])],
         accommodations |->
            [i \in 1..Len(accommodations) |-> formattedAccommodation(accommodations[i])]]

\* A stage mapping that writes the stages in the opposite order.
formattedStagesReversed(stages) ==
    [i \in 1..Len(OrEmpty(stages)) |->
        formattedStage(OrEmpty(stages)[Len(OrEmpty(stages)) + 1 - i])]

\* (stages || []).map(...)
formattedStages(stages) ==
    [i \in 1..Len(OrEmpty(stages)) |-> formattedStage(OrEmpty(stages)[i])]

\* The data of prisma.route.create in POST.
createData(incomingRoute) ==
    [routeId |-> JsNullish(Get(incomingRoute, "route_id"), Str("")),
     routeName |-> JsNullish(Get(incomingRoute, "route_name"), Str("")),
     avgDailyDistance |-> OrEmpty(Get(incomingRoute, "avg_daily_distance")),
     startingPoint |-> OrEmpty(Get(incomingRoute, "starting_point")),
     stages |-> formattedStages(Get(incomingRoute, "stages"))]

\* A create that replaces the first stored record of the same routeId, if any.
createOrReplace(routes, data) ==
    IF \E i \in 1..Len(routes) : routes[i].routeId = data.routeId
    THEN [i \in 1..Len(routes) |->
             IF i = (CHOOSE j \in 1..Len(routes) :
                        /\ routes[j].routeId = data.routeId
                        /\ \A k \in 1..(j - 1) : routes[k].routeId # data.routeId)
             THEN data ELSE routes[i]]
    ELSE Append(routes, data)

\* prisma.route.create({ data }): one more record, whatever the collection holds.
create(routes, data) == Append(routes, data)

\* An update that pushes the payload's stages after the stored ones.
UpdatedRecordKeepingStages(record, incomingRoute, targetRouteId) ==
    [routeId |-> JsNullish(Get(incomingRoute, "route_id"), Str(targetRouteId)),
     routeName |-> JsNullish(Get(incomingRoute, "route_name"), Str("")),
     avgDailyDistance |-> OrEmpty(Get(incomingRoute, "avg_daily_distance")),
     startingPoint |-> OrEmpty(Get(incomingRoute, "starting_point")),
     stages |-> record.stages \o formattedStages(Get(incomingRoute, "stages"))]

\* An update that writes name and lists and leaves the record's routeId alone.
UpdatedRecordKeepingId(record, incomingRoute, targetRouteId) ==
    [routeId |-> record.routeId,
     routeName |-> JsNullish(Get(incomingRoute, "route_name"), Str("")),
     avgDailyDistance |-> OrEmpty(Get(incomingRoute, "avg_daily_distance")),
     startingPoint |-> OrEmpty(Get(incomingRoute, "starting_point")),
     stages |-> formattedStages(Get(incomingRoute, "stages"))]

\* An update that writes the lists and the id and leaves the stored name alone.
UpdatedRecordKeepingName(record, incomingRoute, targetRouteId) ==
    [routeId |-> JsNullish(Get(incomingRoute, "route_id"), Str(targetRouteId)),
     routeName |-> record.routeName,
     avgDailyDistance |-> OrEmpty(Get(incomingRoute, "avg_daily_distance")),
     startingPoint |-> OrEmpty(Get(incomingRoute, "starting_point")),
     stages |-> formattedStages(Get(incomingRoute, "stages"))]

\* The data of prisma.route.updateMany in PUT applied to one matching record:
\* routeId and routeName are assigned, the three lists are `set`.
UpdatedRecord(record, incomingRoute, targetRouteId) ==
    [routeId |-> JsNullish(Get(incomingRoute, "route_id"), Str(targetRouteId)),
     routeName |-> JsNullish(Get(incomingRoute, "route_name"), Str("")),
     avgDailyDistance |-> OrEmpty(Get(incomingRoute, "avg_daily_distance")),
     startingPoint |-> OrEmpty(Get(incomingRoute, "starting_point")),
     stages |-> formattedStages(Get(incomingRoute, "stages"))]

\* The indexes of the records matched by  where: { routeId }
Matching(routes, routeId) == {i \in 1..Len(routes) : routes[i].routeId = routeId}

\* An update that inserts the record when none matches.
updateManyOrInsert(routes, targetRouteId, incomingRoute) ==
    IF Matching(routes, Str(targetRouteId)) = {}
    THEN Append(routes, UpdatedRecord(createData(incomingRoute), incomingRoute, targetRouteId))
    ELSE [i \in 1..Len(routes) |->
            IF routes[i].routeId = Str(targetRouteId)
            THEN UpdatedRecord(routes[i], incomingRoute, targetRouteId)
            ELSE routes[i]]

\* An update that writes every record once one record matches.
updateManyEvery(routes, targetRouteId, incomingRoute) ==
    [i \in 1..Len(routes) |->
        IF Matching(routes, Str(targetRouteId)) # {}
        THEN UpdatedRecord(routes[i], incomingRoute, targetRouteId)
        ELSE routes[i]]

\* prisma.route.updateMany({ where: { routeId: targetRouteId }, data })
updateMany(routes, targetRouteId, incomingRoute) ==
    [i \in 1..Len(routes) |->
        IF routes[i].routeId = Str(targetRouteId)
        THEN UpdatedRecord(routes[i], incomingRoute, targetRouteId)
        ELSE routes[i]]

\* A lookup that falls back to the first record when none matches.
findFirstOrAny(routes, routeId) ==
    IF Matching(routes, routeId) = {} THEN (IF Len(routes) = 0 THEN 0 ELSE 1)
    ELSE CHOOSE i \in Matching(routes, routeId) : \A j \in Matching(routes, routeId) : i <= j

\* prisma.route.findFirst({ where: { routeId } }): the index of the first match in
\* the collection's order, 0 when there is none.
findFirst(routes, routeId) ==
    IF Matching(routes, routeId) = {} THEN 0
    ELSE CHOOSE i \in Matching(routes, routeId) : \A j \in Matching(routes, routeId) : i <= j

formatFacility(f) ==
    <<Pair("index", f.index), Pair("name", f.name), Pair("distance", f.distance),
      Pair("services", f.services)>>

formatAccommodation(a) ==
    <<Pair("name", a.name), Pair("price_category", a.priceCategory),
      Pair("contact_url", a.contactUrl), Pair("contact_phone", a.contactPhone),
      Pair("lat", a.lat), Pair("long", a.long)>>

\* A stage formatter that exchanges the two distances.
formatStageSwappingDistance(stage) ==
    <<Pair("stage_number", stage.stageNumber),
      Pair("stage_name", stage.stageName),
      Pair("distance_km", stage.distanceMiles),
      Pair("distance_miles", stage.distanceKm),
      Pair("gpx", stage.gpx),
      Pair("details",
           Obj(<<Pair("total_distance", stage.details.totalDistance),
                 Pair("total_time", stage.details.totalTime),
                 Pair("accumulated_ascent", stage.details.accumulatedAscent),
                 Pair("accumulated_descent", stage.details.accumulatedDescent),
                 Pair("walking_surface", stage.details.walkingSurface),
                 Pair("elevation_profile", stage.details.elevationProfile),
                 Pair("challenges", stage.details.challenges),
                 Pair("highlights", stage.details.highlights)>>)),
      Pair("facilities", Arr(<<>>)),
      Pair("accommodations", Arr(<<>>))>>

formatStage(stage) ==
    <<Pair("stage_number", stage.stageNumber),
      Pair("stage_name", stage.stageName),
      Pair("distance_km", stage.distanceKm),
      Pair("distance_miles", stage.distanceMiles),
      Pair("gpx", stage.gpx),
      Pair("details",
           Obj(<<Pair("total_distance", stage.details.totalDistance),
                 Pair("total_time", stage.details.totalTime),
                 Pair("accumulated_ascent", stage.details.accumulatedAscent),
                 Pair("accumulated_descent", stage.details.accumulatedDescent),
                 Pair("walking_surface", stage.details.walkingSurface),
                 Pair("elevation_profile", stage.details.elevationProfile),
                 Pair("challenges", stage.details.challenges),
                 Pair("highlights", stage.details.highlights)>>)),
      Pair("facilities",
           Arr([i \in 1..Len(stage.facilities) |-> formatFacility(stage.facilities[i])])),
      Pair("accommodations",
           Arr([i \in 1..Len(stage.accommodations) |->
                   formatAccommodation(stage.accommodations[i])]))>>

\* formatRoute of api/route/[id]; the list GET maps every record the same way.
formatRoute(route) ==
    <<Pair("route_id", route.routeId),
      Pair("route_name", route.routeName),
      Pair("avg_daily_distance", Arr(normalizeAvgDailyDistance(Arr(route.avgDailyDistance)))),
      Pair("starting_point", JsOr(Arr(route.startingPoint), Arr(<<>>))),
      Pair("stages", Arr([i \in 1..Len(route.stages) |-> formatStage(route.stages[i])]))>>

\* responseRoute of POST: the created record in snake_case.
responseRoute(newRoute) ==
    <<Pair("route_id", newRoute.routeId),
      Pair("route_name", newRoute.routeName),
      Pair("avg_daily_distance",
           Arr(normalizeAvgDailyDistance(Arr(newRoute.avgDailyDistance)))),
      Pair("starting_point", JsOr(Arr(newRoute.startingPoint), Arr(<<>>))),
      Pair("stages",
           Arr([i \in 1..Len(newRoute.stages) |->
                   [j \in 1..Len(formatStage(newRoute.stages[i])) |->
                       IF formatStage(newRoute.stages[i])[j].k = "accommodations"
                       THEN Pair("accommodations",
                                 Arr([n \in 1..Len(newRoute.stages[i].accommodations) |->
                                         [m \in 1..6 |->
                                             LET p == formatAccommodation(
                                                          newRoute.stages[i].accommodations[n])[m]
                                             IN  IF m >= 3 THEN Pair(p.k, JsNullish(p.v, Null))
                                                 ELSE p]]))
                       ELSE formatStage(newRoute.stages[i])[j]]]))>>

\* NextResponse.json of a route: JSON.stringify leaves out the keys whose value is
\* undefined, which only the normalized distance bands can hold.
JsonRoute(route) ==
    [i \in 1..Len(route) |->
        IF route[i].k = "avg_daily_distance"
        THEN Pair(route[i].k, Arr(JsonArray(route[i].v.a)))
        ELSE route[i]]

Failure(message) == Obj(<<Pair("success", Bool(FALSE)), Pair("error", Str(message))>>)

(***************************************************************************)
(* The requests the model sends.                                           *)
(***************************************************************************)
RouteIds == {"r1", "r2"}

StageFull ==
    <<Pair("stage_number", Num(1)), Pair("stage_name", Str("S1")),
      Pair("distance_km", Num(10)), Pair("distance_miles", Num(6)), Pair("gpx", Str("g")),
      Pair("details",
           Obj(<<Pair("total_distance", Str("10")), Pair("total_time", Str("3h")),
                 Pair("accumulated_ascent", Str("100")),
                 Pair("accumulated_descent", Str("50")),
                 Pair("walking_surface", Arr(<<Str("trail"), Str("road")>>)),
                 Pair("elevation_profile", Str("e")),
                 Pair("challenges", Arr(<<Str("steep")>>)),
                 Pair("highlights", Arr(<<Str("view")>>))>>)),
      Pair("facilities",
           Arr(<< <<Pair("index", Num(1)), Pair("name", Str("F")), Pair("distance", Str("2")),
                    Pair("services", Arr(<<Str("water")>>))>> >>)),
      Pair("accommodations",
           Arr(<< <<Pair("name", Str("H")), Pair("price_category", Str("low")),
                    Pair("contact_url", Null), Pair("lat", Num(4)), Pair("long", Num(5))>> >>))>>

StageTwo ==
    <<Pair("stage_number", Num(2)), Pair("stage_name", Str("S2")),
      Pair("distance_km", Num(20)), Pair("distance_miles", Num(12)),
      Pair("details", Obj(<<Pair("total_time", Str("5h"))>>)),
      Pair("facilities", Arr(<<>>))>>

\* A stage that breaks the form's rules: number below 1, empty name, no details.
StageBare == <<Pair("stage_number", Num(0)), Pair("stage_name", Str(""))>>

RouteOne ==
    <<Pair("route_id", Str("r1")), Pair("route_name", Str("N1")),
      Pair("avg_daily_distance",
           Arr(<< <<Pair(DynKey("1"), Str("C")), Pair("minimum_km", Num(1))>> >>)),
      Pair("starting_point", Arr(<< <<Pair("name", Str("P"))>> >>)),
      Pair("stages", Arr(<<StageFull, StageTwo>>))>>

RouteNoId == <<Pair("route_name", Str("N2")), Pair("stages", Arr(<<StageTwo>>))>>

RouteTwo ==
    <<Pair("route_id", Str("r2")), Pair("route_name", Str("N2")),
      Pair("avg_daily_distance", Arr(<< <<Pair("label", Str("A")), Pair("days", Num(5))>> >>)),
      Pair("stages", Arr(<<>>))>>

RouteInvalid ==
    <<Pair("route_id", Str("")), Pair("route_name", Str("")),
      Pair("stages", Arr(<<StageBare>>))>>

\* A route that carries a field the route model does not name (`note`) at every
\* level: route, distance band, starting point, stage, details, facility, accommodation.
RouteExtra ==
    <<Pair("route_id", Str("r2")), Pair("route_name", Str("N1")), Pair("note", Str("x")),
      Pair("avg_daily_distance",
           Arr(<< <<Pair("label", Str("A")), Pair("note", Str("x"))>> >>)),
      Pair("starting_point", Arr(<< <<Pair("name", Str("P")), Pair("note", Str("x"))>> >>)),
      Pair("stages",
           Arr(<< <<Pair("stage_number", Num(1)), Pair("stage_name", Str("S1")),
                    Pair("note", Str("x")),
                    Pair("details", Obj(<<Pair("total_time", Str("3h")),
                                          Pair("note", Str("x"))>>)),
                    Pair("facilities",
                         Arr(<< <<Pair("index", Num(1)), Pair("note", Str("x"))>> >>)),
                    Pair("accommodations",
                         Arr(<< <<Pair("name", Str("H")), Pair("price_category", Str("low")),
                                  Pair("note", Str("x"))>> >>))>> >>))>>

Envelope(routes) == Obj(<<Pair("routes", Arr(routes))>>)

\* What a read of the record returns: the body of GET /api/route/[id].
External(route) == JsonRoute(formatRoute(route))

\* The request bodies: bare routes (one with unknown fields), envelopes (one with a second element, one empty),
\* a null body, and a record sent back as it was read.
Bodies(routes) ==
    {Obj(RouteOne), Obj(RouteNoId), Obj(RouteTwo), Obj(RouteInvalid), Obj(RouteExtra),
     Envelope(<<RouteTwo, RouteOne>>), Envelope(<<>>), Null}
    \cup {Obj(External(routes[i])) : i \in 1..Len(routes)}

(***************************************************************************)
(* The handlers.                                                           *)
(***************************************************************************)
Init ==
    /\ store = <<>>
    /\ ExtraInit
    /\ request = NoRequest
    /\ response = NoResponse
    /\ formRoute = <<>>
    /\ submittedRoute = Undef
    /\ avgDailyDistance = <<>>
    /\ apiBands = <<>>
    /\ formBands = <<>>
    /\ payloadBands = <<>>
    /\ submittedBands = <<>>
    /\ editor = "none"
    /\ phase = "unmounted"

\* GET /api/route
GET ==
    /\ request' = [op |-> "LIST", id |-> "", body |-> Undef]
    /\ response' =
          [status |-> 200,
           body |-> Obj(<<Pair("routes", Arr([i \in 1..Len(store) |-> External(store[i])]))>>)]
    /\ UNCHANGED <<store, normVars, formVars, extraVars>>

\* POST /api/route; a null incomingRoute throws at incomingRoute.avg_daily_distance
\* and the catch answers 500.
POST(body) ==
    LET incomingRoute == IncomingRoute(body)
    IN  /\ request' = [op |-> "POST", id |-> "", body |-> body]
        /\ IF IsNullish(incomingRoute)
           THEN /\ store' = store
                /\ response' = [status |-> 500, body |-> Failure("Failed to create route")]
           ELSE /\ Len(store) < MaxRoutes
                /\ store' = create(store, createData(incomingRoute.o))
                /\ response' =
                      [status |-> 200,
                       body |-> Obj(JsonRoute(responseRoute(createData(incomingRoute.o))))]
        /\ UNCHANGED <<normVars, formVars, extraVars>>

\* GET /api/route/[id]
GET_id(targetRouteId) ==
    LET route == findFirst(store, Str(targetRouteId))
    IN  /\ request' = [op |-> "GET", id |-> targetRouteId, body |-> Undef]
        /\ response' =
              IF route = 0
              THEN [status |-> 404, body |-> Failure("Route not found")]
              ELSE [status |-> 200, body |-> Obj(External(store[route]))]
        /\ UNCHANGED <<store, normVars, formVars, extraVars>>

\* PUT /api/route/[id]; a null incomingRoute throws at incomingRoute.route_id and
\* the catch answers 500.
PUT(targetRouteId, body) ==
    LET incomingRoute == IncomingRoute(body)
    IN  /\ request' = [op |-> "PUT", id |-> targetRouteId, body |-> body]
        /\ IF IsNullish(incomingRoute)
           THEN /\ store' = store
                /\ response' = [status |-> 500, body |-> Failure("Failed to update route")]
           ELSE LET nextRouteId ==
                        JsNullish(Get(incomingRoute.o, "route_id"), Str(targetRouteId))
                    updated == updateMany(store, targetRouteId, incomingRoute.o)
                IN  /\ store' = updated
                    /\ response' =
                          IF Matching(store, Str(targetRouteId)) = {}
                          THEN [status |-> 404, body |-> Failure("Route not found")]
                          ELSE IF findFirst(updated, nextRouteId) = 0
                          THEN [status |-> 404,
                                body |-> Failure("Route not found after update")]
                          ELSE [status |-> 200,
                                body |-> Obj(External(updated[findFirst(updated, nextRouteId)]))]
        /\ UNCHANGED <<normVars, formVars, extraVars>>

Next ==
    \/ GET
    \/ \E body \in Bodies(store) : POST(body)
    \/ \E id \in RouteIds : GET_id(id)
    \/ \E id \in RouteIds, body \in Bodies(store) : PUT(id, body)

Spec == Init /\ [][Next]_vars

(***************************************************************************)
(* The editors' form: the route fields and stages the form holds, and the  *)
(* zod routeSchema that handleSubmit runs before it calls onSubmit.        *)
(***************************************************************************)
\* Most stages a form grows to.
MaxStages == 2

\* z.string()
ZString(v) == IsString(v)
\* z.string().min(1, ...)
ZStringMin1(v) == IsString(v) /\ v.s # ""
\* z.string().optional()
ZOptString(v) == v.t \in {"string", "undefined"}
\* z.array(z.string())
ZStringArray(v) == IsArray(v) /\ \A i \in 1..Len(v.a) : IsString(v.a[i])
\* z.coerce.number(): Number(undefined) is NaN, which is not a number.
CoerceRequiredOk(v) == v.t # "undefined" /\ CoerceOk(v)

\* details: z.object({...}) with its eight required fields
ZodDetailsOk(details) ==
    /\ details.t = "object"
    /\ ZString(Get(details.o, "total_distance"))
    /\ ZString(Get(details.o, "total_time"))
    /\ ZString(Get(details.o, "accumulated_ascent"))
    /\ ZString(Get(details.o, "accumulated_descent"))
    /\ ZStringArray(Get(details.o, "walking_surface"))
    /\ ZString(Get(details.o, "elevation_profile"))
    /\ ZStringArray(Get(details.o, "challenges"))
    /\ ZStringArray(Get(details.o, "highlights"))
ZodDetails(details) ==
    Obj(<<Pair("total_distance", Get(details.o, "total_distance")),
          Pair("total_time", Get(details.o, "total_time")),
          Pair("accumulated_ascent", Get(details.o, "accumulated_ascent")),
          Pair("accumulated_descent", Get(details.o, "accumulated_descent")),
          Pair("walking_surface", Get(details.o, "walking_surface")),
          Pair("elevation_profile", Get(details.o, "elevation_profile")),
          Pair("challenges", Get(details.o, "challenges")),
          Pair("highlights", Get(details.o, "highlights"))>>)

\* One element of facilities; name and distance are in the schema of RouteFormUpdate only.
ZodFacilityOk(ed, f) ==
    /\ CoerceRequiredOk(Get(f, "index"))
    /\ ZStringArray(Get(f, "services"))
    /\ ed = "RouteFormUpdate" => ZOptString(Get(f, "name")) /\ ZOptString(Get(f, "distance"))
ZodFacility(ed, f) ==
    JsonObject(<<Pair("index", CoerceNumber(Get(f, "index")))>>
               \o (IF ed = "RouteFormUpdate"
                   THEN <<Pair("name", Get(f, "name")), Pair("distance", Get(f, "distance"))>>
                   ELSE <<>>)
               \o <<Pair("services", Get(f, "services"))>>)

\* One element of accommodations; lat and long are in the schema of RouteFormUpdate only.
ZodAccommodationOk(ed, a) ==
    /\ ZString(Get(a, "name"))
    /\ ZString(Get(a, "price_category"))
    /\ ZOptString(Get(a, "contact_url"))
    /\ ZOptString(Get(a, "contact_phone"))
    /\ ed = "RouteFormUpdate" => CoerceOk(Get(a, "lat")) /\ CoerceOk(Get(a, "long"))
ZodAccommodation(ed, a) ==
    JsonObject(<<Pair("name", Get(a, "name")),
                 Pair("price_category", Get(a, "price_category")),
                 Pair("contact_url", Get(a, "contact_url")),
                 Pair("contact_phone", Get(a, "contact_phone"))>>
               \o (IF ed = "RouteFormUpdate"
                   THEN <<Pair("lat", CoerceNumber(Get(a, "lat"))),
                          Pair("long", CoerceNumber(Get(a, "long")))>>
                   ELSE <<>>))

\* A stage schema without the lower bound of stage_number.
ZodStageOkAnyNumber(ed, stage) ==
    /\ CoerceRequiredOk(Get(stage, "stage_number"))
    /\ ZStringMin1(Get(stage, "stage_name"))
    /\ CoerceRequiredOk(Get(stage, "distance_km"))
    /\ CoerceRequiredOk(Get(stage, "distance_miles"))
    /\ ZOptString(Get(stage, "gpx"))
    /\ ed = "RouteForm" => IsArray(Get(stage, "avg_daily_distance"))
    /\ Get(stage, "details").t = "object"
    /\ IsArray(Get(stage, "facilities"))
    /\ IsArray(Get(stage, "accommodations"))

\* One element of stages; avg_daily_distance is in the schema of RouteForm only.
ZodStageOk(ed, stage) ==
    /\ CoerceRequiredOk(Get(stage, "stage_number"))
    /\ CoerceNumber(Get(stage, "stage_number")).n >= 1
    /\ ZStringMin1(Get(stage, "stage_name"))
    /\ CoerceRequiredOk(Get(stage, "distance_km"))
    /\ CoerceRequiredOk(Get(stage, "distance_miles"))
    /\ ZOptString(Get(stage, "gpx"))
    /\ ed = "RouteForm" => IsArray(Get(stage, "avg_daily_distance"))
    /\ ZodDetailsOk(Get(stage, "details"))
    /\ IsArray(Get(stage, "facilities"))
    /\ \A i \in 1..Len(OrEmpty(Get(stage, "facilities"))) :
          ZodFacilityOk(ed, Get(stage, "facilities").a[i])
    /\ IsArray(Get(stage, "accommodations"))
    /\ \A i \in 1..Len(OrEmpty(Get(stage, "accommodations"))) :
          ZodAccommodationOk(ed, Get(stage, "accommodations").a[i])
ZodStage(ed, stage) ==
    JsonObject(<<Pair("stage_number", CoerceNumber(Get(stage, "stage_number"))),
                 Pair("stage_name", Get(stage, "stage_name")),
                 Pair("distance_km", CoerceNumber(Get(stage, "distance_km"))),
                 Pair("distance_miles", CoerceNumber(Get(stage, "distance_miles"))),
                 Pair("gpx", Get(stage, "gpx"))>>
               \o (IF ed = "RouteForm"
                   THEN <<Pair("avg_daily_distance", Get(stage, "avg_daily_distance"))>>
                   ELSE <<>>)
               \o <<Pair("details", ZodDetails(Get(stage, "details"))),
                    Pair("facilities",
                         Arr([i \in 1..Len(Get(stage, "facilities").a) |->
                                 ZodFacility(ed, Get(stage, "facilities").a[i])])),
                    Pair("accommodations",
                         Arr([i \in 1..Len(Get(stage, "accommodations").a) |->
                                 ZodAccommodation(ed, Get(stage, "accommodations").a[i])]))>>)

\* starting_point of RouteFormUpdate: an optional array of objects of optional strings.
ZodStartingPointOk(v) ==
    \/ v.t = "undefined"
    \/ /\ IsArray(v)
       /\ \A i \in 1..Len(v.a) :
             /\ ZOptString(Get(v.a[i], "name"))
             /\ ZOptString(Get(v.a[i], "avg_distance"))
             /\ ZOptString(Get(v.a[i], "avg_daily"))

\* routeSchema.safeParse(values) succeeds, for the schema of the editor `ed`.
ZodRouteOk(ed, route) ==
    /\ ZStringMin1(Get(route, "route_id"))
    /\ ZStringMin1(Get(route, "route_name"))
    /\ ed = "RouteFormUpdate" => ZodStartingPointOk(Get(route, "starting_point"))
    /\ IsArray(Get(route, "stages"))
    /\ \A i \in 1..Len(OrEmpty(Get(route, "stages"))) :
          ZodStageOk(ed, Get(route, "stages").a[i])
\* The parsed data: the numeric fields coerced, the keys outside the schema left out.
ZodRoute(ed, route) ==
    <<Pair("route_id", Get(route, "route_id")), Pair("route_name", Get(route, "route_name")),
      Pair("stages", Arr([i \in 1..Len(Get(route, "stages").a) |->
                             ZodStage(ed, Get(route, "stages").a[i])]))>>

\* The stage appendStage adds: stage_number is the number of stages plus one.
BlankStage(ed, count) ==
    <<Pair("stage_number", Num(count + 1)), Pair("stage_name", Str("")),
      Pair("distance_km", Num(0)), Pair("distance_miles", Num(0)), Pair("gpx", Str(""))>>
    \o (IF ed = "RouteForm" THEN <<Pair("avg_daily_distance", Arr(<<>>))>> ELSE <<>>)
    \o <<Pair("details",
              Obj(<<Pair("total_distance", Str("")), Pair("total_time", Str("")),
                    Pair("accumulated_ascent", Str("")), Pair("accumulated_descent", Str("")),
                    Pair("walking_surface", Arr(<<>>)), Pair("elevation_profile", Str("")),
                    Pair("challenges", Arr(<<>>)), Pair("highlights", Arr(<<>>))>>)),
         Pair("facilities", Arr(<<>>)), Pair("accommodations", Arr(<<>>))>>

\* defaultValues of RouteForm
DefaultValues ==
    <<Pair("route_id", Str("")), Pair("route_name", Str("")), Pair("stages", Arr(<<>>))>>

\* normalizeInitialData without the distance bands: route_id, route_name,
\* starting_point and stages of the initialData prop, defaulted.
normalizeInitialRoute(input) ==
    IF input.t # "object"
    THEN <<Pair("route_id", Str("")), Pair("route_name", Str("")),
           Pair("starting_point", Arr(<<>>)), Pair("stages", Arr(<<>>))>>
    ELSE <<Pair("route_id", JsOr(Get(input.o, "route_id"), Str(""))),
           Pair("route_name", JsOr(Get(input.o, "route_name"), Str(""))),
           Pair("starting_point", JsOr(Get(input.o, "starting_point"), Arr(<<>>))),
           Pair("stages", JsOr(Get(input.o, "stages"), Arr(<<>>)))>>

\* The values of the initialData prop the model mounts RouteFormUpdate with: none, a
\* route as the API returns it, and a route whose one stage has no details.
LoadedStage ==
    <<Pair("stage_number", Num(1)), Pair("stage_name", Str("S1")),
      Pair("distance_km", Num(10)), Pair("distance_miles", Num(6)), Pair("gpx", Str("g")),
      Pair("details",
           Obj(<<Pair("total_distance", Str("10")), Pair("total_time", Str("3h")),
                 Pair("accumulated_ascent", Str("100")), Pair("accumulated_descent", Str("50")),
                 Pair("walking_surface", Arr(<<Str("trail")>>)),
                 Pair("elevation_profile", Str("e")),
                 Pair("challenges", Arr(<<>>)), Pair("highlights", Arr(<<>>))>>)),
      Pair("facilities",
           Arr(<< <<Pair("index", Num(1)), Pair("name", Str("F")), Pair("distance", Str("2")),
                    Pair("services", Arr(<<Str("water")>>))>> >>)),
      Pair("accommodations", Arr(<<>>))>>
InitialData ==
    {Undef,
     Obj(<<Pair("route_id", Str("r1")), Pair("route_name", Str("N1")),
           Pair("avg_daily_distance", Arr(<<>>)), Pair("starting_point", Arr(<<>>)),
           Pair("stages", Arr(<<LoadedStage>>))>>),
     Obj(<<Pair("route_id", Str("r1")), Pair("route_name", Str("N1")),
           Pair("stages",
                Arr(<<SelectSeq(LoadedStage, LAMBDA p : p.k # "details")>>))>>)}

\* What the user types: a text input gives any string, a number input gives the
\* empty string or a numeral, always as a string.
TypedTexts == {"", "r1"}
TypedStageNumbers == {"0", "5"}
TypedDistances == {""}

\* setValue(name, value) on a field of an object
SetField(o, key, val) == [i \in 1..Len(o) |-> IF o[i].k = key THEN Pair(key, val) ELSE o[i]]
\* the same on a field of the stage at position k
SetStageField(route, k, key, val) ==
    SetField(route, "stages",
             Arr([i \in 1..Len(Get(route, "stages").a) |->
                     IF i = k THEN SetField(Get(route, "stages").a[i], key, val)
                     ELSE Get(route, "stages").a[i]]))

\* An editor is mounted: RouteForm with its defaults, RouteFormUpdate with an
\* initialData prop.
InitForm ==
    /\ store = <<>>
    /\ ExtraInit
    /\ request = NoRequest
    /\ response = NoResponse
    /\ avgDailyDistance = <<>>
    /\ apiBands = <<>>
    /\ formBands = <<>>
    /\ payloadBands = <<>>
    /\ submittedBands = <<>>
    /\ submittedRoute = Undef
    /\ phase = "editing"
    /\ \/ /\ editor = "RouteForm"
          /\ formRoute = DefaultValues
       \/ /\ editor = "RouteFormUpdate"
          /\ \E initialData \in InitialData : formRoute = normalizeInitialRoute(initialData)

\* The frame of the form actions.
FormFrame ==
    UNCHANGED <<apiVars, extraVars, avgDailyDistance, apiBands, formBands, payloadBands,
                submittedBands, editor>>

\* register("route_id"), register("route_name"): the user types in a text input.
TypeRouteField(key, text) ==
    /\ phase \in {"editing", "rejected"}
    /\ formRoute' = SetField(formRoute, key, Str(text))
    /\ phase' = "editing"
    /\ submittedRoute' = Undef
    /\ FormFrame

\* register(`stages.${index}.stage_name`) and the number inputs stage_number,
\* distance_km, distance_miles of the stage at position k.
TypeStageField(k, key, text) ==
    /\ phase \in {"editing", "rejected"}
    /\ k \in 1..Len(Get(formRoute, "stages").a)
    /\ formRoute' = SetStageField(formRoute, k, key, Str(text))
    /\ phase' = "editing"
    /\ submittedRoute' = Undef
    /\ FormFrame

appendStage ==
    /\ phase \in {"editing", "rejected"}
    /\ Len(Get(formRoute, "stages").a) < MaxStages
    /\ formRoute' =
          SetField(formRoute, "stages",
                   Arr(Append(Get(formRoute, "stages").a,
                              BlankStage(editor, Len(Get(formRoute, "stages").a)))))
    /\ phase' = "editing"
    /\ submittedRoute' = Undef
    /\ FormFrame

removeStage(k) ==
    /\ phase \in {"editing", "rejected"}
    /\ k \in 1..Len(Get(formRoute, "stages").a)
    /\ formRoute' = SetField(formRoute, "stages", Arr(RemoveAt(Get(formRoute, "stages").a, k)))
    /\ phase' = "editing"
    /\ submittedRoute' = Undef
    /\ FormFrame

\* handleSubmit(onSubmit): the resolver parses the form values with routeSchema; with
\* errors the form shows them and onSubmit is not called, without errors onSubmit is
\* called with the parsed data.
handleSubmit ==
    /\ phase = "editing"
    /\ IF ZodRouteOk(editor, formRoute)
       THEN /\ submittedRoute' = Obj(ZodRoute(editor, formRoute))
            /\ phase' = "submitted"
       ELSE /\ submittedRoute' = Undef
            /\ phase' = "rejected"
    /\ UNCHANGED formRoute
    /\ FormFrame

\* onSubmit returned; the data it was called with was its argument.
FormEditAgain ==
    /\ phase = "submitted"
    /\ phase' = "editing"
    /\ submittedRoute' = Undef
    /\ UNCHANGED formRoute
    /\ FormFrame

NextForm ==
    \/ \E key \in {"route_id", "route_name"}, text \in TypedTexts : TypeRouteField(key, text)
    \/ \E k \in 1..MaxStages, text \in {"", "S1"} : TypeStageField(k, "stage_name", text)
    \/ \E k \in 1..MaxStages, text \in TypedStageNumbers :
          TypeStageField(k, "stage_number", text)
    \/ \E k \in 1..MaxStages, text \in TypedDistances : TypeStageField(k, "distance_km", text)
    \/ appendStage
    \/ \E k \in 1..MaxStages : removeStage(k)
    \/ handleSubmit
    \/ FormEditAgain

SpecForm == InitForm /\ [][NextForm]_vars

(***************************************************************************)
(* Properties of the key normalizer and the denormalizers.                 *)
(***************************************************************************)
DynamicKeysOf(entry) == {key \in KeySet(entry) : StartsWithDynPrefix(key)}
DynamicStringsOf(entry) ==
    {entry[i].v : i \in {j \in 1..Len(entry) :
                            StartsWithDynPrefix(entry[j].k) /\ IsString(entry[j].v)}}
\* "avg_daily_distance_<n>" for the 1-based position n
KeyOfPosition(n) == "avg_daily_distance_" \o ToString(n)
\* The label an entry holds, by the priority rule of the specification: `label` if
\* a string, else `range_value` if a string, else a string held under a dynamic key.
HeldLabel(entry) ==
    IF IsString(Get(entry, "label")) THEN Get(entry, "label")
    ELSE IF IsString(Get(entry, "range_value")) THEN Get(entry, "range_value")
    ELSE IF DynamicStringsOf(entry) # {} THEN CHOOSE v \in DynamicStringsOf(entry) : TRUE
    ELSE Str("")

\* C1: every entry an API read returns carries the label resolved by strict
\* priority: `label` whenever it is a string (the empty string included), otherwise
\* `range_value` whenever it is a string, otherwise a string held under a dynamic
\* avg_daily_distance_<n> key, otherwise the empty string.
C1_LabelPriority ==
    phase \in {"fetched", "refetched"} =>
        /\ Len(apiBands) = Len(avgDailyDistance)
        /\ \A i \in 1..Len(avgDailyDistance) :
              LET record == avgDailyDistance[i]
                  out == Get(apiBands[i], "label")
              IN  IF IsString(Get(record, "label")) THEN out = Get(record, "label")
                  ELSE IF IsString(Get(record, "range_value"))
                       THEN out = Get(record, "range_value")
                  ELSE out \in DynamicStringsOf(record) \cup {Str("")}

\* C5: in the body an editor submits, the entry at 1-based position n carries the
\* label key avg_daily_distance_<n> and no other dynamic key, whatever keys the form
\* entries carried and whatever was removed before.
C5_PositionalKeys ==
    phase = "submitted" =>
        /\ Len(payloadBands) = Len(formBands)
        /\ \A n \in 1..Len(payloadBands) :
              /\ Has(payloadBands[n], KeyOfPosition(n))
              /\ DynamicKeysOf(payloadBands[n]) = {KeyOfPosition(n)}

\* C6: in the body an editor submits, the value under the positional key of an entry
\* is the label the entry held before, also when the entry held it only under the
\* dynamic key of another position.
C6_LabelReEmitted ==
    phase = "submitted" =>
        \A n \in 1..Len(payloadBands) :
            Get(payloadBands[n], KeyOfPosition(n)) = HeldLabel(submittedBands[n])

\* C7: a denormalized entry has no range_value key and no dynamic key but its own
\* positional one, and an entry stored by a save holds at most one dynamic key.
C7_NoAliasKeys ==
    /\ phase = "submitted" =>
          \A n \in 1..Len(payloadBands) :
              /\ ~Has(payloadBands[n], "range_value")
              /\ \A key \in DynamicKeysOf(payloadBands[n]) : key = KeyOfPosition(n)
    /\ phase \in {"saved", "refetched"} =>
          \A n \in 1..Len(avgDailyDistance) :
              /\ ~Has(avgDailyDistance[n], "range_value")
              /\ Cardinality(DynamicKeysOf(avgDailyDistance[n])) <= 1

\* C7 witness: a submitted entry whose form entry carried range_value and the
\* dynamic key of another position.
C7_Witness ==
    /\ phase = "submitted"
    /\ \E n \in 1..Len(payloadBands) :
          /\ Has(submittedBands[n], "range_value")
          /\ DynamicKeysOf(submittedBands[n]) \ {KeyOfPosition(n)} # {}

\* C8: after load, submit, store and read-back, every entry the API returns has the
\* label the editor held for it: normalize(denormalize(x)) gives back the labels of x.
C8_RoundTripLabel ==
    phase = "refetched" =>
        /\ Len(apiBands) = Len(formBands)
        /\ \A n \in 1..Len(apiBands) :
              Get(apiBands[n], "label") = Get(formBands[n], "range_value")

\* C8 witness: a read-back of two saved entries, one with a non-empty label.
C8_Witness ==
    /\ phase = "refetched"
    /\ Len(apiBands) = 2
    /\ \E n \in 1..2 : Truthy(Get(formBands[n], "range_value"))

\* C9: normalizing normalized entries changes nothing: the API normalizer applied
\* to what an API read returned, and the editor normalizer applied to the entries
\* the update editor holds, give back the same entries.
C9_Idempotent ==
    /\ phase \in {"fetched", "refetched"} =>
          JsonArray(normalizeAvgDailyDistance(Arr(apiBands))) = apiBands
    /\ (editor = "RouteFormUpdate" /\ phase = "editing") =>
          normalizeInitialData(Arr(formBands)) = formBands

\* C9 witness: a read whose first entry got its label from an alias key and has
\* numeric fields.
C9_Witness ==
    /\ phase = "fetched"
    /\ Len(apiBands) >= 1
    /\ ~Has(avgDailyDistance[1], "label")
    /\ Truthy(Get(apiBands[1], "label"))
    /\ Has(apiBands[1], "days")

\* The keys avg_daily_distance_<positive integer> among the keys the model draws.
PatternKeys == {DynKey(ToString(i)) : i \in 1..(MaxBands + 1)}
\* The strings an entry holds under such keys.
PatternStringsOf(entry) ==
    {entry[i].v : i \in {j \in 1..Len(entry) :
                            entry[j].k \in PatternKeys /\ IsString(entry[j].v)}}

\* C14: for an entry whose label and range_value are both not strings, an API read
\* returns as label a string the entry holds under a key avg_daily_distance_<positive
\* integer> whenever the entry has one, and the empty string otherwise: a key that only
\* starts with the prefix and has no positive-integer suffix is not a label source.
C14_DynamicKeyPattern ==
    phase \in {"fetched", "refetched"} =>
        \A i \in 1..Len(avgDailyDistance) :
            (~IsString(Get(avgDailyDistance[i], "label"))
             /\ ~IsString(Get(avgDailyDistance[i], "range_value"))) =>
                IF PatternStringsOf(avgDailyDistance[i]) # {}
                THEN Get(apiBands[i], "label") \in PatternStringsOf(avgDailyDistance[i])
                ELSE Get(apiBands[i], "label") = Str("")

\* The entry carries its label under `name` and under no other key.
OneLabelField(entry, name) ==
    /\ Has(entry, name)
    /\ Cardinality({i \in 1..Len(entry) : entry[i].k = name}) = 1
    /\ KeySet(entry) \cap ({"label", "range_value"} \cup DynamicKeysOf(entry)) = {name}

\* C15 as stated: wherever normalization is applied, on an API read and on the load
\* of the update editor, every normalized entry carries exactly one label field, named
\* `label`, and neither `range_value` nor a dynamic key.
C15_LabelEverywhere ==
    [][/\ phase' \in {"fetched", "refetched"} =>
             \A i \in 1..Len(apiBands') : OneLabelField(apiBands'[i], "label")
       /\ (phase \in {"fetched", "refetched"} /\ phase' = "editing") =>
             \A i \in 1..Len(formBands') : OneLabelField(formBands'[i], "label")]_vars

\* C15, amended: every entry an API read returns carries exactly one label field,
\* named `label`, and neither `range_value` nor a dynamic key; every entry the update
\* editor holds after its load carries exactly one label field, named `range_value`,
\* and neither `label` nor a dynamic key.
C15_OneLabelField ==
    [][/\ phase' \in {"fetched", "refetched"} =>
             /\ Len(apiBands') = Len(avgDailyDistance')
             /\ \A i \in 1..Len(apiBands') : OneLabelField(apiBands'[i], "label")
       /\ (phase \in {"fetched", "refetched"} /\ phase' = "editing") =>
             /\ Len(formBands') = Len(apiBands)
             /\ \A i \in 1..Len(formBands') : OneLabelField(formBands'[i], "range_value")]_vars

\* C15 witness: the update editor just loaded a read of a stored entry that held
\* its label under range_value and under a dynamic key at once.
C15_Witness ==
    /\ editor = "RouteFormUpdate" /\ phase = "editing"
    /\ Len(avgDailyDistance) >= 1
    /\ Len(formBands) = Len(avgDailyDistance)
    /\ formBands = normalizeInitialData(Arr(apiBands))
    /\ Has(avgDailyDistance[1], "range_value")
    /\ DynamicKeysOf(avgDailyDistance[1]) # {}
    /\ Truthy(Get(formBands[1], "range_value"))

\* The values an entry holds, and the empty label.
ValuesOf(entry) == {entry[i].v : i \in 1..Len(entry)} \cup {Str("")}

\* `out` is `in` mapped entry by entry: as many entries, the five numeric fields of
\* each equal to those of the input entry at the same position, its label (under
\* `name`) a value of that input entry, and equal input entries mapped alike.
EntryByEntry(out, in, name) ==
    /\ Len(out) = Len(in)
    /\ \A i \in 1..Len(in) :
          /\ \A k \in 1..Len(NumericKeys) :
                Get(out[i], NumericKeys[k]) = Get(in[i], NumericKeys[k])
          /\ Get(out[i], name) \in ValuesOf(in[i])
          /\ \A j \in 1..Len(in) : in[i] = in[j] => out[i] = out[j]

\* C16: normalization maps entry by entry, on an API read and on the load of the
\* update editor: the output has the length and the order of the input, each output
\* entry is determined by the input entry at its position, and its five numeric
\* fields equal those of that input entry.
C16_EntryByEntry ==
    [][/\ phase' \in {"fetched", "refetched"} =>
             EntryByEntry(apiBands', avgDailyDistance', "label")
       /\ (phase \in {"fetched", "refetched"} /\ phase' = "editing") =>
             EntryByEntry(formBands', apiBands, "range_value")]_vars

\* C16 witness: a read of two different stored entries, the second with all five
\* numeric fields and the first with none.
C16_Witness ==
    /\ phase = "fetched"
    /\ Len(avgDailyDistance) = 2 /\ Len(apiBands) = 2
    /\ avgDailyDistance[1] # avgDailyDistance[2]
    /\ \A k \in 1..Len(NumericKeys) :
          /\ ~Has(avgDailyDistance[1], NumericKeys[k])
          /\ Has(avgDailyDistance[2], NumericKeys[k])
          /\ Has(apiBands[2], NumericKeys[k])

(***************************************************************************)
(* Properties of the route API.                                            *)
(***************************************************************************)
\* The route object of the request a step handles.
PayloadOf(req) == IncomingRoute(req.body).o
CarriesRoute(req) == IncomingRoute(req.body).t = "object"

\* C2: a successful update of route id T leaves in every record that had id T
\* exactly the stages (field-mapped), distance bands and starting points of the
\* payload, a list absent from the payload becoming empty; nothing stored before
\* survives.
C2_Overwrite ==
    [][(request'.op = "PUT" /\ response'.status = 200) =>
          \A payload \in {PayloadOf(request')} :
              \A stages \in {OrEmpty(Get(payload, "stages"))} :
                  \A i \in Matching(store, Str(request'.id)) :
                      /\ Len(store'[i].stages) = Len(stages)
                      /\ \A n \in 1..Len(stages) :
                            /\ store'[i].stages[n].stageName =
                                  JsNullish(Get(stages[n], "stage_name"), Str(""))
                            /\ store'[i].stages[n] = formattedStage(stages[n])
                      /\ store'[i].avgDailyDistance =
                            OrEmpty(Get(payload, "avg_daily_distance"))
                      /\ store'[i].startingPoint =
                            OrEmpty(Get(payload, "starting_point"))]_vars

\* C2 witness: the record created with two stages, a distance band and a starting
\* point has been updated with a payload of one stage and no other list, and holds
\* one stage and empty lists.
C2_Witness ==
    /\ request.op = "PUT"
    /\ request.id = "r1"
    /\ request.body = Obj(RouteNoId)
    /\ response.status = 200
    /\ Len(store) = 1
    /\ store[1].routeName = Str("N2")
    /\ Len(store[1].stages) = 1
    /\ store[1].avgDailyDistance = <<>>
    /\ store[1].startingPoint = <<>>

\* C3: an update addressed to an id that matches no stored record is answered
\* NotFound (404) and leaves the store unchanged.
C3_NotFound ==
    [][(request'.op = "PUT" /\ Matching(store, Str(request'.id)) = {}) =>
          /\ response'.status = 404
          /\ store' = store]_vars

\* C3 (amended): an update addressed to an id that matches no stored record leaves
\* the store unchanged and is never answered with success: it is answered NotFound
\* (404) when the body carries a route object, and with the failure status 500 when
\* the body is null or an envelope with an empty routes list.
C3_NotFoundWithRoute ==
    [][(request'.op = "PUT" /\ Matching(store, Str(request'.id)) = {}) =>
          /\ store' = store
          /\ response'.status = IF CarriesRoute(request') THEN 404 ELSE 500]_vars

\* C3 witness: a non-empty store after an update with a route object that was
\* answered NotFound.
C3_Witness ==
    /\ request.op = "PUT"
    /\ CarriesRoute(request)
    /\ response.status = 404
    /\ Matching(store, Str(request.id)) = {}
    /\ Len(store) >= 1

\* The validation rules the form states: route_id and route_name non-empty strings,
\* every stage with stage_number at least 1, a non-empty stage_name and details.
ValidRoute(route) ==
    /\ IsString(Get(route, "route_id")) /\ Get(route, "route_id").s # ""
    /\ IsString(Get(route, "route_name")) /\ Get(route, "route_name").s # ""
    /\ \A n \in 1..Len(OrEmpty(Get(route, "stages"))) :
          LET stage == OrEmpty(Get(route, "stages"))[n]
          IN  /\ Get(stage, "stage_number").t = "number"
              /\ Get(stage, "stage_number").n >= 1
              /\ IsString(Get(stage, "stage_name")) /\ Get(stage, "stage_name").s # ""
              /\ Get(stage, "details").t = "object"

\* C4: a create or update whose route breaks the validation rules is answered with
\* a failure and leaves the store as it was.
C4_InvalidRejected ==
    [][(/\ request'.op \in {"POST", "PUT"}
        /\ CarriesRoute(request')
        /\ ~ValidRoute(PayloadOf(request'))) =>
          /\ response'.status # 200
          /\ store' = store]_vars

\* The stored record with its distance bands as a read returns them.
WithNormalizedBands(route) ==
    [route EXCEPT !.avgDailyDistance = JsonArray(normalizeAvgDailyDistance(Arr(@)))]

\* A stored record that satisfies the validation rules.
ValidStored(route) == ValidRoute(External(route))

\* C10: a valid stored record x that is read (formatRoute) and sent back, by an
\* update to its id or by a create, is stored again as x.
C10_RoundTripIdentity ==
    [][\A i \in 1..Len(store) :
          (/\ ValidStored(store[i])
           /\ request'.body = Obj(External(store[i]))
           /\ response'.status = 200) =>
              /\ (request'.op = "PUT" /\ request'.id = store[i].routeId.s) =>
                    store'[i] = store[i]
              /\ request'.op = "POST" => store'[Len(store')] = store[i]]_vars

\* C10 (amended): a stored record x that is read (formatRoute) and sent back, by an
\* update to its id or by a create, is stored again as x with its distance bands
\* replaced by their normalized form; it is stored as x itself when its bands are
\* already normalized.
C10_RoundTripNormalized ==
    [][\A i \in 1..Len(store) :
          (/\ request'.body = Obj(External(store[i]))
           /\ response'.status = 200) =>
              /\ (request'.op = "PUT" /\ request'.id = store[i].routeId.s) =>
                    /\ store'[i] = WithNormalizedBands(store[i])
                    /\ WithNormalizedBands(store[i]) = store[i] => store'[i] = store[i]
              /\ request'.op = "POST" =>
                    store'[Len(store')] = WithNormalizedBands(store[i])]_vars

\* C10 witness: a record with stages, a facility, an accommodation, a distance band
\* and a starting point, stored by an update whose body is what a read of it returns.
C10_Witness ==
    /\ request.op = "PUT"
    /\ response.status = 200
    /\ \E i \in 1..Len(store) :
          /\ request.id = store[i].routeId.s
          /\ request.body = Obj(External(store[i]))
          /\ Len(store[i].stages) = 2
          /\ Len(store[i].stages[1].facilities) = 1
          /\ Len(store[i].stages[1].accommodations) = 1
          /\ Len(store[i].avgDailyDistance) = 1
          /\ Len(store[i].startingPoint) = 1

(***************************************************************************)
(* Properties of the field-name mapping.                                   *)
(***************************************************************************)
\* The fields the route model names, level by level, in their external spelling.
RouteFieldNames == {"route_id", "route_name", "avg_daily_distance", "starting_point", "stages"}
BandFieldNames ==
    {"label", "minimum_km", "minimum_mile", "maximum_km", "maximum_mile", "days"}
StartingPointFieldNames == {"name", "avg_distance", "avg_daily"}
StageFieldNames ==
    {"stage_number", "stage_name", "distance_km", "distance_miles", "gpx", "details",
     "facilities", "accommodations"}
DetailsFieldNames ==
    {"total_distance", "total_time", "accumulated_ascent", "accumulated_descent",
     "walking_surface", "elevation_profile", "challenges", "highlights"}
FacilityFieldNames == {"index", "name", "distance", "services"}
AccommodationFieldNames ==
    {"name", "price_category", "contact_url", "contact_phone", "lat", "long"}

\* Every object of the list has only keys of the set.
AllWithin(list, names) == \A n \in 1..Len(list) : KeySet(list[n]) \subseteq names

\* An external route that has only named fields at every level.
OnlyKnownFields(route) ==
    /\ KeySet(route) \subseteq RouteFieldNames
    /\ AllWithin(OrEmpty(Get(route, "avg_daily_distance")), BandFieldNames)
    /\ AllWithin(OrEmpty(Get(route, "starting_point")), StartingPointFieldNames)
    /\ AllWithin(OrEmpty(Get(route, "stages")), StageFieldNames)
    /\ \A n \in 1..Len(OrEmpty(Get(route, "stages"))) :
          LET stage == OrEmpty(Get(route, "stages"))[n]
          IN  /\ KeySet(Get(stage, "details").o) \subseteq DetailsFieldNames
              /\ AllWithin(OrEmpty(Get(stage, "facilities")), FacilityFieldNames)
              /\ AllWithin(OrEmpty(Get(stage, "accommodations")), AccommodationFieldNames)

\* The raw JSON lists of a stored record hold only named fields; a stored band may
\* name its label by any of the three conventions.
StoredOnlyKnownFields(route) ==
    /\ \A n \in 1..Len(route.avgDailyDistance) :
          \A key \in KeySet(route.avgDailyDistance[n]) :
              key \in BandFieldNames \cup {"range_value"} \/ StartsWithDynPrefix(key)
    /\ AllWithin(route.startingPoint, StartingPointFieldNames)

\* C11: after a create or an update, no field of the request that the route model
\* does not name is in a stored record or in a route a response returns, at any
\* level (route, distance band, starting point, stage, details, facility,
\* accommodation).
C11_UnknownDropped ==
    /\ \A i \in 1..Len(store) : StoredOnlyKnownFields(store[i])
    /\ (request.op \in {"POST", "PUT", "GET"} /\ response.status = 200) =>
          OnlyKnownFields(response.body.o)

\* The internal value is the external one: the supplied value unchanged, and no
\* value where none was supplied.
SameValue(internal, external) ==
    IF IsNullish(external) THEN IsNullish(internal) ELSE internal = external

\* The stored stage holds, field by field, the value the external stage supplied.
StageRenamedOnly(internal, stage) ==
    /\ SameValue(internal.stageNumber, Get(stage, "stage_number"))
    /\ SameValue(internal.stageName, Get(stage, "stage_name"))
    /\ SameValue(internal.distanceKm, Get(stage, "distance_km"))
    /\ SameValue(internal.distanceMiles, Get(stage, "distance_miles"))
    /\ SameValue(internal.gpx, Get(stage, "gpx"))
    /\ \A details \in {Get(stage, "details")} :
          /\ SameValue(internal.details.totalDistance, OptGet(details, "total_distance"))
          /\ SameValue(internal.details.totalTime, OptGet(details, "total_time"))
          /\ SameValue(internal.details.accumulatedAscent,
                       OptGet(details, "accumulated_ascent"))
          /\ SameValue(internal.details.accumulatedDescent,
                       OptGet(details, "accumulated_descent"))
          /\ SameValue(internal.details.walkingSurface, OptGet(details, "walking_surface"))
          /\ SameValue(internal.details.elevationProfile,
                       OptGet(details, "elevation_profile"))
          /\ SameValue(internal.details.challenges, OptGet(details, "challenges"))
          /\ SameValue(internal.details.highlights, OptGet(details, "highlights"))
    /\ \A facilities \in {OrEmpty(Get(stage, "facilities"))} :
          /\ Len(internal.facilities) = Len(facilities)
          /\ \A n \in 1..Len(facilities) :
                /\ SameValue(internal.facilities[n].index, Get(facilities[n], "index"))
                /\ SameValue(internal.facilities[n].name, Get(facilities[n], "name"))
                /\ SameValue(internal.facilities[n].distance, Get(facilities[n], "distance"))
                /\ SameValue(internal.facilities[n].services, Get(facilities[n], "services"))
    /\ \A accommodations \in {OrEmpty(Get(stage, "accommodations"))} :
          /\ Len(internal.accommodations) = Len(accommodations)
          /\ \A n \in 1..Len(accommodations) :
                /\ SameValue(internal.accommodations[n].name, Get(accommodations[n], "name"))
                /\ SameValue(internal.accommodations[n].priceCategory,
                             Get(accommodations[n], "price_category"))
                /\ SameValue(internal.accommodations[n].contactUrl,
                             Get(accommodations[n], "contact_url"))
                /\ SameValue(internal.accommodations[n].contactPhone,
                             Get(accommodations[n], "contact_phone"))
                /\ SameValue(internal.accommodations[n].lat, Get(accommodations[n], "lat"))
                /\ SameValue(internal.accommodations[n].long, Get(accommodations[n], "long"))

RouteRenamedOnly(internal, route) ==
    /\ SameValue(internal.routeName, Get(route, "route_name"))
    /\ \A stages \in {OrEmpty(Get(route, "stages"))} :
          /\ Len(internal.stages) = Len(stages)
          /\ \A n \in 1..Len(stages) : StageRenamedOnly(internal.stages[n], stages[n])

\* C12: the record a create or an update writes holds, for every field of the route
\* model, the value the request supplied for it under its external name: nothing is
\* substituted or converted, an empty string stays an empty string, and a field the
\* request does not supply acquires no value.
C12_RenameOnly ==
    [][(request'.op \in {"POST", "PUT"} /\ response'.status = 200) =>
          \A payload \in {PayloadOf(request')} :
              /\ request'.op = "POST" =>
                    /\ SameValue(store'[Len(store')].routeId, Get(payload, "route_id"))
                    /\ RouteRenamedOnly(store'[Len(store')], payload)
              /\ request'.op = "PUT" =>
                    \A i \in Matching(store, Str(request'.id)) :
                        RouteRenamedOnly(store'[i], payload)]_vars

\* The stored stages have the shape of the external ones: as many stages, facilities
\* and accommodations, each at the position it was supplied at, and the string lists
\* element for element.
SameShapeIn(internal, stages) ==
    /\ Len(internal) = Len(stages)
    /\ \A n \in 1..Len(stages) :
          \A facilities \in {OrEmpty(Get(stages[n], "facilities"))},
             accommodations \in {OrEmpty(Get(stages[n], "accommodations"))},
             details \in {Get(stages[n], "details")} :
              /\ IsString(Get(stages[n], "stage_name")) =>
                    internal[n].stageName = Get(stages[n], "stage_name")
              /\ Len(internal[n].facilities) = Len(facilities)
              /\ Len(internal[n].accommodations) = Len(accommodations)
              /\ \A m \in 1..Len(facilities) :
                    /\ IsString(Get(facilities[m], "name")) =>
                          internal[n].facilities[m].name = Get(facilities[m], "name")
                    /\ IsArray(Get(facilities[m], "services")) =>
                          internal[n].facilities[m].services = Get(facilities[m], "services")
              /\ \A m \in 1..Len(accommodations) :
                    IsString(Get(accommodations[m], "name")) =>
                        internal[n].accommodations[m].name = Get(accommodations[m], "name")
              /\ IsArray(OptGet(details, "walking_surface")) =>
                    internal[n].details.walkingSurface = OptGet(details, "walking_surface")
              /\ IsArray(OptGet(details, "challenges")) =>
                    internal[n].details.challenges = OptGet(details, "challenges")
              /\ IsArray(OptGet(details, "highlights")) =>
                    internal[n].details.highlights = OptGet(details, "highlights")

\* The returned stages have the shape of the stored ones.
SameShapeOut(stages, internal) ==
    /\ Len(stages) = Len(internal)
    /\ \A n \in 1..Len(internal) :
          \A facilities \in {Get(stages[n], "facilities").a},
             accommodations \in {Get(stages[n], "accommodations").a},
             details \in {Get(stages[n], "details").o} :
              /\ Get(stages[n], "stage_name") = internal[n].stageName
              /\ Len(facilities) = Len(internal[n].facilities)
              /\ Len(accommodations) = Len(internal[n].accommodations)
              /\ \A m \in 1..Len(facilities) :
                    /\ Get(facilities[m], "name") = internal[n].facilities[m].name
                    /\ Get(facilities[m], "services") = internal[n].facilities[m].services
              /\ \A m \in 1..Len(accommodations) :
                    Get(accommodations[m], "name") = internal[n].accommodations[m].name
              /\ Get(details, "walking_surface") = internal[n].details.walkingSurface
              /\ Get(details, "challenges") = internal[n].details.challenges
              /\ Get(details, "highlights") = internal[n].details.highlights

BelowOne(v) ==
    \/ v.t = "number" /\ v.n < 1
    \/ v.t = "string" /\ v.s \in NumericStrings /\ NumberOfString(v.s) < 1

\* The route breaks a rule of the route model: route_id or route_name empty or
\* missing, a stage numbered below 1, a stage without details.
BreaksRouteRules(route) ==
    \/ ~(IsString(Get(route, "route_id")) /\ Get(route, "route_id").s # "")
    \/ ~(IsString(Get(route, "route_name")) /\ Get(route, "route_name").s # "")
    \/ \E i \in 1..Len(OrEmpty(Get(route, "stages"))) :
          \/ BelowOne(Get(OrEmpty(Get(route, "stages"))[i], "stage_number"))
          \/ Get(OrEmpty(Get(route, "stages"))[i], "details").t # "object"

\* C17: a form whose route has an empty or missing route_id or route_name, a stage
\* with stage_number below 1 or a stage without details is rejected by the validator
\* of either editor: no data is handed to the submit handler for it.
C17_InvalidNeverSubmitted ==
    /\ BreaksRouteRules(formRoute) => (phase # "submitted" /\ submittedRoute = Undef)
    /\ submittedRoute # Undef =>
          /\ ZStringMin1(Get(submittedRoute.o, "route_id"))
          /\ ZStringMin1(Get(submittedRoute.o, "route_name"))
          /\ \A i \in 1..Len(Get(submittedRoute.o, "stages").a) :
                /\ Get(Get(submittedRoute.o, "stages").a[i], "stage_number").t = "number"
                /\ Get(Get(submittedRoute.o, "stages").a[i], "stage_number").n >= 1
                /\ Get(Get(submittedRoute.o, "stages").a[i], "details").t = "object"

\* C17 witness: the validator rejected a form whose only broken rule is a stage
\* without details.
C17_Witness ==
    /\ phase = "rejected"
    /\ submittedRoute = Undef
    /\ Get(formRoute, "route_id") = Str("r1")
    /\ Get(formRoute, "route_name") = Str("r1")
    /\ Len(Get(formRoute, "stages").a) = 2
    /\ Get(Get(formRoute, "stages").a[1], "details").t = "undefined"
    /\ \A i \in 1..2 :
          /\ ~BelowOne(Get(Get(formRoute, "stages").a[i], "stage_number"))
          /\ Get(Get(formRoute, "stages").a[i], "stage_name") = Str("S1")

\* The strings that look like a number, among the strings the model draws.
Numerals == NumericStrings \ {""}
\* The required numeric fields of a stage.
StageNumericKeys == {"stage_number", "distance_km", "distance_miles"}

\* C18: in a form the validator accepted, every numeric field of a stage held a
\* number or a numeric-looking string, and the data handed to the submit handler
\* holds its numeric value: a value that does not look like a number (the empty
\* string, a boolean, null, a word) fails validation.
C18_NumericLookingOnly ==
    phase = "submitted" =>
        \A i \in 1..Len(Get(formRoute, "stages").a), key \in StageNumericKeys :
            \A v \in {Get(Get(formRoute, "stages").a[i], key)},
               out \in {Get(Get(submittedRoute.o, "stages").a[i], key)} :
                /\ v.t = "number" \/ (v.t = "string" /\ v.s \in Numerals)
                /\ v.t = "number" => out = v
                /\ v.t = "string" => out = Num(NumberOfString(v.s))

(***************************************************************************)
(* Properties of the read by id and of the request body shapes.            *)
(***************************************************************************)
\* C19: a read by id answers 404 "Route not found", neither a success nor the 500 of
\* a failure, when no stored record has the id, and otherwise 200 with a stored
\* record of that id in external form: the external field names, the id asked for,
\* the name and the stages of the record.
C19_ReadById ==
    request.op = "GET" =>
        IF Matching(store, Str(request.id)) = {}
        THEN /\ response.status = 404
             /\ response.body = Failure("Route not found")
        ELSE /\ response.status = 200
             /\ \A route \in {response.body.o} :
                   /\ KeySet(route) = RouteFieldNames
                   /\ Get(route, "route_id") = Str(request.id)
                   /\ \E i \in Matching(store, Str(request.id)) :
                         /\ route = External(store[i])
                         /\ Get(route, "route_name") = store[i].routeName
                         /\ SameShapeOut(Get(route, "stages").a, store[i].stages)

\* C19 witness: a read by id answered 404 while the collection holds records, all
\* of another id.
C19_Witness ==
    /\ request.op = "GET"
    /\ response.status = 404
    /\ Len(store) = 2
    /\ Matching(store, Str(request.id)) = {}

\* The body is an envelope { routes: [...] } with at least one element.
IsEnvelope(body) ==
    /\ body.t = "object"
    /\ IsArray(Get(body.o, "routes"))
    /\ Len(Get(body.o, "routes").a) >= 1
\* The body is a bare route object.
IsBareRoute(body) == body.t = "object" /\ ~IsArray(Get(body.o, "routes"))
\* The route a body of either shape carries: the first element of an envelope, or
\* the body itself.
RouteIn(body) == IF IsEnvelope(body) THEN Get(body.o, "routes").a[1] ELSE body.o

\* The record holds what the route supplies: its name, its distance bands and
\* starting points as given, and its stages in number and order.
WrittenFrom(record, route) ==
    /\ IsString(Get(route, "route_name")) => record.routeName = Get(route, "route_name")
    /\ record.avgDailyDistance = OrEmpty(Get(route, "avg_daily_distance"))
    /\ record.startingPoint = OrEmpty(Get(route, "starting_point"))
    /\ SameShapeIn(record.stages, OrEmpty(Get(route, "stages")))

\* C20: create and update accept a bare route object and an envelope { routes: [...] }
\* alike, and of an envelope only the first element counts.  A create appends exactly
\* one record, written from that route, and returns it; an update of an id with
\* stored records writes every record of that id from that route and leaves the other
\* records and the number of records as they were.
C20_BothShapes ==
    [][(request'.op \in {"POST", "PUT"}
        /\ (IsEnvelope(request'.body) \/ IsBareRoute(request'.body))) =>
          \A route \in {RouteIn(request'.body)} :
              /\ request'.op = "POST" =>
                    /\ response'.status = 200
                    /\ Len(store') = Len(store) + 1
                    /\ SubSeq(store', 1, Len(store)) = store
                    /\ WrittenFrom(store'[Len(store')], route)
                    /\ IsString(Get(route, "route_id")) =>
                          /\ store'[Len(store')].routeId = Get(route, "route_id")
                          /\ Get(response'.body.o, "route_id") = Get(route, "route_id")
              /\ (request'.op = "PUT" /\ Matching(store, Str(request'.id)) # {}) =>
                    /\ response'.status = 200
                    /\ Len(store') = Len(store)
                    /\ \A i \in 1..Len(store) :
                          IF i \in Matching(store, Str(request'.id))
                          THEN /\ WrittenFrom(store'[i], route)
                               /\ IsString(Get(route, "route_id")) =>
                                     store'[i].routeId = Get(route, "route_id")
                          ELSE store'[i] = store[i]]_vars

\* C20 witness: an update answered 200 whose body was an envelope of two different
\* routes.
C20_Witness ==
    /\ request.op = "PUT"
    /\ response.status = 200
    /\ IsEnvelope(request.body)
    /\ Len(Get(request.body.o, "routes").a) = 2
    /\ Get(request.body.o, "routes").a[1] # Get(request.body.o, "routes").a[2]
    /\ \E i \in 1..Len(store) : WrittenFrom(store[i], Get(request.body.o, "routes").a[1])

(***************************************************************************)
(* Properties of the update: what it returns, what it changes.             *)
(***************************************************************************)
\* C25: the route a successful update returns is the record the update wrote: its
\* route_name is the payload's and its stages are the payload's, as many and in the
\* same order, also when several records share a route_id and when the payload
\* changes the route_id to one already in use.
C25_ReturnsWritten ==
    [][(request'.op = "PUT" /\ response'.status = 200) =>
          \A route \in {RouteIn(request'.body)}, returned \in {response'.body.o} :
              /\ IsString(Get(route, "route_name")) =>
                    Get(returned, "route_name") = Get(route, "route_name")
              /\ Len(Get(returned, "stages").a) = Len(OrEmpty(Get(route, "stages")))
              /\ \A n \in 1..Len(OrEmpty(Get(route, "stages"))) :
                    IsString(Get(OrEmpty(Get(route, "stages"))[n], "stage_name")) =>
                        Get(Get(returned, "stages").a[n], "stage_name")
                            = Get(OrEmpty(Get(route, "stages"))[n], "stage_name")]_vars

\* C26: an update addressed to id T writes every stored record whose route_id is T
\* from the payload and leaves every record with another route_id as it was; an
\* update answered NotFound or with a failure leaves every record as it was.
C26_UpdateFrame ==
    [][request'.op = "PUT" =>
          /\ Len(store') = Len(store)
          /\ response'.status \in {200, 404, 500}
          /\ response'.status # 200 => store' = store
          /\ response'.status = 200 =>
                /\ Matching(store, Str(request'.id)) # {}
                /\ \A route \in {RouteIn(request'.body)}, i \in 1..Len(store) :
                      IF store[i].routeId = Str(request'.id)
                      THEN /\ WrittenFrom(store'[i], route)
                           /\ store'[i].routeId
                                 = JsNullish(Get(route, "route_id"), Str(request'.id))
                      ELSE store'[i] = store[i]]_vars

\* C26 witness: a successful update in a collection of two records, one written
\* from the payload and one of another id that does not hold the payload.
C26_Witness ==
    /\ request.op = "PUT"
    /\ response.status = 200
    /\ Len(store) = 2
    /\ \E i, j \in 1..2 :
          /\ i # j
          /\ WrittenFrom(store[i], RouteIn(request.body))
          /\ store[j].routeId # Str(request.id)
          /\ store[j].routeId # store[i].routeId
          /\ ~WrittenFrom(store[j], RouteIn(request.body))

\* C27: the number of stored records changes only by a successful create, which
\* adds exactly one record after the stored ones, also when a record of the same
\* route_id is stored already; a failed create, an update, a list and a read by id
\* leave the number of records, and a list and a read by id the records, as they were.
C27_RecordCount ==
    [][/\ (request'.op = "POST" /\ response'.status = 200) =>
             /\ Len(store') = Len(store) + 1
             /\ SubSeq(store', 1, Len(store)) = store
       /\ (request'.op = "POST" /\ response'.status # 200) => store' = store
       /\ request'.op = "PUT" => Len(store') = Len(store)
       /\ request'.op \in {"LIST", "GET"} => store' = store]_vars

\* C27 witness: a create answered 200 left two records of the same route_id.
C27_Witness ==
    /\ request.op = "POST"
    /\ response.status = 200
    /\ Len(store) = 2
    /\ store[1].routeId = store[2].routeId

IsEmptyEnvelope(body) ==
    /\ body.t = "object"
    /\ IsArray(Get(body.o, "routes"))
    /\ Len(Get(body.o, "routes").a) = 0

\* C29: a create or an update whose body is an envelope with an empty routes list
\* is answered with a failure and leaves the store as it was: no record is created,
\* none is overwritten.
C29_EmptyEnvelope ==
    [][(request'.op \in {"POST", "PUT"} /\ IsEmptyEnvelope(request'.body)) =>
          /\ response'.status = 500
          /\ Get(response'.body.o, "success") = Bool(FALSE)
          /\ store' = store]_vars

\* C29 witness: an update with an empty envelope, addressed to the id of a stored
\* record, was answered with the failure.
C29_Witness ==
    /\ request.op = "PUT"
    /\ IsEmptyEnvelope(request.body)
    /\ response.status = 500
    /\ Matching(store, Str(request.id)) # {}

(***************************************************************************)
(* Two updates in flight at once.  PUT awaits twice: prisma.route.updateMany *)
(* and, when it matched, prisma.route.findFirst; each call is one step on  *)
(* the collection and the other request may run between the two.  `puts`   *)
(* holds, per request, where it stands, and for the statement of the       *)
(* properties the order of the writes and the collection before them.      *)
(***************************************************************************)
\* The collections the two updates start from: records created from RouteOne and RouteTwo.
InitialStores == SeqsUpTo({createData(RouteOne), createData(RouteTwo)}, MaxRoutes)

\* The bodies the two updates carry.
ConcBodies ==
    {Obj(RouteOne), Obj(RouteTwo), Obj(RouteNoId), Envelope(<<RouteTwo, RouteOne>>),
     Envelope(<<>>)}

InitConc ==
    /\ store \in InitialStores
    /\ puts = [p |-> <<IdlePut, IdlePut>>, order |-> <<>>, before |-> store]
    /\ services = <<>>
    /\ selected = ""
    /\ pasted = NoPaste
    /\ submission = NoSubmission
    /\ page = NoPage
    /\ request = NoRequest
    /\ response = NoResponse
    /\ formRoute = <<>>
    /\ submittedRoute = Undef
    /\ avgDailyDistance = <<>>
    /\ apiBands = <<>>
    /\ formBands = <<>>
    /\ payloadBands = <<>>
    /\ submittedBands = <<>>
    /\ editor = "none"
    /\ phase = "unmounted"

\* request.json() and the code up to the first await on the collection: a null
\* incomingRoute throws at incomingRoute.route_id and the catch answers 500.
putBegin(p, targetRouteId, body) ==
    /\ puts.p[p].pc = "idle"
    /\ puts' =
          [puts EXCEPT !.p[p] =
              IF IsNullish(IncomingRoute(body))
              THEN [pc |-> "done", id |-> targetRouteId, body |-> body, count |-> 0,
                    response |-> [status |-> 500,
                                  body |-> Failure("Failed to update route")]]
              ELSE [pc |-> "parsed", id |-> targetRouteId, body |-> body, count |-> 0,
                    response |-> NoResponse]]
    /\ UNCHANGED <<apiVars, normVars, formVars, servicesVars, pasteVars, submissionVars, pageVars>>

\* await prisma.route.updateMany(...)
putUpdateMany(p) ==
    /\ puts.p[p].pc = "parsed"
    /\ store' = updateMany(store, puts.p[p].id, IncomingRoute(puts.p[p].body).o)
    /\ puts' = [puts EXCEPT !.p[p].pc = "written",
                            !.p[p].count = Cardinality(Matching(store, Str(puts.p[p].id))),
                            !.order = Append(@, p)]
    /\ UNCHANGED <<request, response, normVars, formVars, servicesVars, pasteVars, submissionVars, pageVars>>

\* updateResult.count === 0, await prisma.route.findFirst(...) and the response
putRespond(p) ==
    LET nextRouteId == JsNullish(Get(IncomingRoute(puts.p[p].body).o, "route_id"),
                                 Str(puts.p[p].id))
    IN  /\ puts.p[p].pc = "written"
        /\ puts' =
              [puts EXCEPT !.p[p].pc = "done",
                           !.p[p].response =
                               IF puts.p[p].count = 0
                               THEN [status |-> 404, body |-> Failure("Route not found")]
                               ELSE IF findFirst(store, nextRouteId) = 0
                               THEN [status |-> 404,
                                     body |-> Failure("Route not found after update")]
                               ELSE [status |-> 200,
                                     body |-> Obj(External(store[findFirst(store, nextRouteId)]))]]
        /\ UNCHANGED <<apiVars, normVars, formVars, servicesVars, pasteVars, submissionVars, pageVars>>

NextConc ==
    \/ \E p \in 1..2, id \in RouteIds, body \in ConcBodies : putBegin(p, id, body)
    \/ \E p \in 1..2 : putUpdateMany(p)
    \/ \E p \in 1..2 : putRespond(p)

SpecConc == InitConc /\ [][NextConc]_vars

(***************************************************************************)
(* ServicesSelectInput: the editor of one facility's services list.        *)
(***************************************************************************)
SERVICE_OPTIONS ==
    <<"Shop", "ATM", "Food_Drink", "Camino_Stamp", "Hotel", "Guest_House", "Supermarket",
      "Campsite">>

\* value.includes(option)
Includes(value, option) == \E i \in 1..Len(value) : value[i] = option
\* SERVICE_OPTIONS.filter((option) => !value.includes(option))
availableOptions(value) == SelectSeq(SERVICE_OPTIONS, LAMBDA option : ~Includes(value, option))
\* The mutant of resolvedSelected: the select's state, available or not.
resolvedSelectedUnfiltered(value, sel) == sel

\* availableOptions.includes(selected) ? selected : availableOptions[0] || ""
resolvedSelected(value, sel) ==
    IF Includes(availableOptions(value), sel) THEN sel
    ELSE IF Len(availableOptions(value)) > 0 THEN availableOptions(value)[1] ELSE ""

\* The services lists the editor is mounted on: the empty list of a facility just
\* added, and a loaded list, in an order of its own.
InitialServices == {<<>>, <<"Hotel", "Shop">>}

InitServices ==
    /\ services \in InitialServices
    /\ selected = SERVICE_OPTIONS[1]
    /\ puts = NoPuts
    /\ pasted = NoPaste
    /\ submission = NoSubmission
    /\ page = NoPage
    /\ store = <<>>
    /\ request = NoRequest
    /\ response = NoResponse
    /\ formRoute = <<>>
    /\ submittedRoute = Undef
    /\ avgDailyDistance = <<>>
    /\ apiBands = <<>>
    /\ formBands = <<>>
    /\ payloadBands = <<>>
    /\ submittedBands = <<>>
    /\ editor = "RouteFormUpdate"
    /\ phase = "editing"

ServicesFrame ==
    UNCHANGED <<apiVars, normVars, formVars, concVars, pasteVars, submissionVars, pageVars>>

\* onChange of the select element: the user picks one of the options it lists.
selectOption(option) ==
    /\ Includes(availableOptions(services), option)
    /\ selected' = option
    /\ UNCHANGED services
    /\ ServicesFrame

\* onClick of "Add service"
addService ==
    /\ IF Len(availableOptions(services)) = 0
       THEN UNCHANGED <<services, selected>>
       ELSE LET nextValue == Append(services, resolvedSelected(services, selected))
            IN  /\ services' = nextValue
                /\ selected' = IF Len(availableOptions(nextValue)) > 0
                               THEN availableOptions(nextValue)[1] ELSE selected
    /\ ServicesFrame

\* onClick of "Remove service" on the item at position i
removeService(i) ==
    /\ i \in 1..Len(services)
    /\ services' = RemoveAt(services, i)
    /\ UNCHANGED selected
    /\ ServicesFrame

NextServices ==
    \/ \E n \in 1..Len(SERVICE_OPTIONS) : selectOption(SERVICE_OPTIONS[n])
    \/ addService
    \/ \E i \in 1..(Len(SERVICE_OPTIONS) + 2) : removeService(i)

SpecServices == InitServices /\ [][NextServices]_vars

(***************************************************************************)
(* handleJsonPaste of RouteForm over the whole form.  A text is the        *)
(* sequence of its JSON tokens; JSONparse follows the JSON grammar over    *)
(* them: value, array with comma-separated elements, object with           *)
(* comma-separated "key": value members, and nothing after the value.      *)
(* (The textarea that calls the handler is commented out in the JSX, so    *)
(* the handler is an operation of its own specification.)                  *)
(***************************************************************************)
Tok(kind, text) == [k |-> kind, s |-> text]
P(text) == Tok("punct", text)
S(text) == Tok("string", text)

ParseFail == [ok |-> FALSE, v |-> Undef, next |-> 0]
Parsed(val, pos) == [ok |-> TRUE, v |-> val, next |-> pos]

\* An array of objects holds their key-value sequences.
Element(v) == IF v.t = "object" THEN v.o ELSE v
\* A member with a key the object has already replaces that key's value.
SetMember(o, key, val) == IF Has(o, key) THEN [i \in 1..Len(o) |-> IF o[i].k = key THEN Pair(key, val) ELSE o[i]]
                          ELSE Append(o, Pair(key, val))

RECURSIVE ParseValue(_, _), ParseElements(_, _, _), ParseMembers(_, _, _)
ParseValue(ts, i) ==
    IF i > Len(ts) THEN ParseFail
    ELSE CASE ts[i].k = "null" -> Parsed(Null, i + 1)
           [] ts[i].k = "string" -> Parsed(Str(ts[i].s), i + 1)
           [] ts[i].k = "number" -> Parsed(Num(NumberOfString(ts[i].s)), i + 1)
           [] ts[i] = P("[") ->
                 IF i + 1 <= Len(ts) /\ ts[i + 1] = P("]")
                 THEN Parsed(Arr(<<>>), i + 2)
                 ELSE ParseElements(ts, i + 1, <<>>)
           [] ts[i] = P("{") ->
                 IF i + 1 <= Len(ts) /\ ts[i + 1] = P("}")
                 THEN Parsed(Obj(<<>>), i + 2)
                 ELSE ParseMembers(ts, i + 1, <<>>)
           [] OTHER -> ParseFail
ParseElements(ts, i, acc) ==
    LET e == ParseValue(ts, i)
    IN  IF ~e.ok \/ e.next > Len(ts) THEN ParseFail
        ELSE IF ts[e.next] = P(",") THEN ParseElements(ts, e.next + 1, Append(acc, Element(e.v)))
        ELSE IF ts[e.next] = P("]") THEN Parsed(Arr(Append(acc, Element(e.v))), e.next + 1)
        ELSE ParseFail
ParseMembers(ts, i, acc) ==
    IF i + 1 > Len(ts) \/ ts[i].k # "string" \/ ts[i + 1] # P(":") THEN ParseFail
    ELSE LET e == ParseValue(ts, i + 2)
         IN  IF ~e.ok \/ e.next > Len(ts) THEN ParseFail
             ELSE IF ts[e.next] = P(",")
                  THEN ParseMembers(ts, e.next + 1, SetMember(acc, ts[i].s, e.v))
             ELSE IF ts[e.next] = P("}")
                  THEN Parsed(Obj(SetMember(acc, ts[i].s, e.v)), e.next + 1)
             ELSE ParseFail

\* A parser that stops at the end of the first value and ignores what follows it.
JSONparsePrefix(ts) == ParseValue(ts, 1)

\* JSON.parse(text): the value, or a SyntaxError (ok = FALSE)
JSONparse(ts) ==
    LET r == ParseValue(ts, 1)
    IN  IF r.ok /\ r.next = Len(ts) + 1 THEN r ELSE ParseFail

\* json.key: undefined on a value that is not an object
Property(json, key) == IF json.t = "object" THEN Get(json.o, key) ELSE Undef

\* The body of the try block on a parsed value: the form after the three setValue calls.
pastedInto(form, json) ==
    LET named == SetField(SetField(form, "route_id", JsOr(Property(json, "route_id"), Str(""))),
                          "route_name", JsOr(Property(json, "route_name"), Str("")))
    IN  IF IsArray(Property(json, "stages"))
        THEN SetField(named, "stages", Property(json, "stages"))
        ELSE named

\* The texts handed to the handler: texts JSON.parse rejects (empty, cut short, a
\* missing colon, a trailing comma, text after the value), null, whose property read
\* throws a TypeError, and values it accepts.
PastedTexts ==
    {<<>>,
     <<P("{")>>,
     <<P("{"), S("route_id"), P(":"), S("r2")>>,
     <<P("{"), S("route_id"), S("r2"), P("}")>>,
     <<P("{"), S("route_id"), P(":"), S("r2"), P(","), P("}")>>,
     <<P("{"), S("route_name"), P(":"), S("N2"), P("}"), P("}")>>,
     <<P("["), P("]"), Tok("junk", "x")>>,
     <<Tok("null", "null")>>,
     <<Tok("number", "5")>>,
     <<P("{"), P("}")>>,
     <<P("{"), S("route_id"), P(":"), S("r2"), P(","), S("route_name"), P(":"), S("N2"), P(","),
       S("stages"), P(":"), P("["), P("]"), P("}")>>,
     <<P("{"), S("route_id"), P(":"), S("r1"), P(","), S("stages"), P(":"), S("none"), P("}")>>}

InitPaste ==
    /\ editor = "RouteForm"
    /\ formRoute = DefaultValues
    /\ phase = "editing"
    /\ submittedRoute = Undef
    /\ store = <<>>
    /\ ExtraInit
    /\ request = NoRequest
    /\ response = NoResponse
    /\ avgDailyDistance = <<>>
    /\ apiBands = <<>>
    /\ formBands = <<>>
    /\ payloadBands = <<>>
    /\ submittedBands = <<>>

\* handleJsonPaste: a SyntaxError of JSON.parse and a TypeError of json.route_id on
\* null are caught and ignored; otherwise the form takes the pasted values.
handleJsonPasteText(text) ==
    /\ phase \in {"editing", "rejected"}
    /\ pasted' = [text |-> text, raised |-> FALSE]
    /\ LET r == JSONparse(text)
       IN  IF ~r.ok \/ r.v.t = "null"
           THEN UNCHANGED <<formRoute, phase, submittedRoute>>
           ELSE /\ formRoute' = pastedInto(formRoute, r.v)
                /\ phase' = "editing"
                /\ submittedRoute' = Undef
    /\ UNCHANGED <<apiVars, concVars, servicesVars, submissionVars, pageVars, avgDailyDistance,
                   apiBands, formBands, payloadBands, submittedBands, editor>>

NextPaste ==
    \/ \E text \in PastedTexts : handleJsonPasteText(text)
    \/ \E key \in {"route_id", "route_name"}, text \in TypedTexts : TypeRouteField(key, text)
    \/ appendStage
    \/ \E k \in 1..MaxStages : removeStage(k)

SpecPaste == InitPaste /\ [][NextPaste]_vars

(***************************************************************************)
(* RouteFormUpdate's onSubmit: the submission status around the PUT.       *)
(* Home mounts the form with targetRouteId "" and no initialData; the      *)
(* routes page mounts it with the id of the selected route and the route.  *)
(***************************************************************************)
TargetRouteIds == {"", "r1"}

InitSubmit ==
    /\ editor = "RouteFormUpdate"
    /\ \E id \in TargetRouteIds :
          /\ submission = [targetRouteId |-> id, submissionStatus |-> "idle", pc |-> "ready"]
          /\ IF id = ""
             THEN formRoute = normalizeInitialRoute(Undef)
             ELSE \E initialData \in InitialData \ {Undef} :
                     formRoute = normalizeInitialRoute(initialData)
    /\ phase = "editing"
    /\ submittedRoute = Undef
    /\ store = <<>>
    /\ puts = NoPuts
    /\ services = <<>>
    /\ selected = ""
    /\ pasted = NoPaste
    /\ page = NoPage
    /\ request = NoRequest
    /\ response = NoResponse
    /\ avgDailyDistance = <<>>
    /\ apiBands = <<>>
    /\ formBands = <<>>
    /\ payloadBands = <<>>
    /\ submittedBands = <<>>

SubmitFrame ==
    UNCHANGED <<apiVars, concVars, servicesVars, pasteVars, pageVars, avgDailyDistance, apiBands,
                formBands, payloadBands, submittedBands, editor>>

\* The submit button, disabled while the status is "loading": handleSubmit validates
\* the form and, without errors, calls onSubmit, which runs to its first await: it
\* sets the status to "loading", builds the payload, and returns when targetRouteId
\* is empty, else sends the PUT.
submitUpdate ==
    /\ phase = "editing"
    /\ submission.submissionStatus # "loading"
    /\ IF ZodRouteOk(editor, formRoute)
       THEN /\ submittedRoute' = Obj(ZodRoute(editor, formRoute))
            /\ phase' = "submitted"
            /\ submission' = [submission EXCEPT
                                 !.submissionStatus = "loading",
                                 !.pc = IF submission.targetRouteId = ""
                                        THEN "returned" ELSE "fetching"]
       ELSE /\ submittedRoute' = Undef
            /\ phase' = "rejected"
            /\ UNCHANGED submission
    /\ UNCHANGED formRoute
    /\ SubmitFrame

\* The rest of onSubmit: the fetch resolved with res.ok, resolved without it, or
\* fetch or res.json() rejected.
FetchOutcomes == {"ok", "not ok", "rejected"}
putSettled(outcome) ==
    /\ submission.pc = "fetching"
    /\ submission' = [submission EXCEPT
                         !.submissionStatus = IF outcome = "ok" THEN "success" ELSE "error",
                         !.pc = "returned"]
    /\ UNCHANGED <<formVars, phase>>
    /\ SubmitFrame

NextSubmit ==
    \/ \E key \in {"route_id", "route_name"}, text \in TypedTexts : TypeRouteField(key, text)
    \/ \E k \in 1..MaxStages, text \in {"", "S1"} : TypeStageField(k, "stage_name", text)
    \/ appendStage
    \/ \E k \in 1..MaxStages : removeStage(k)
    \/ submitUpdate
    \/ \E outcome \in FetchOutcomes : putSettled(outcome)
    \/ FormEditAgain

SpecSubmit == InitSubmit /\ [][NextSubmit]_vars

(***************************************************************************)
(* RoutesPage: the list page, its fetches of the route list and the modal  *)
(* with the update form.  A route of the list is modelled by its route_id. *)
(* While loading is true the page renders the spinner alone, so no route   *)
(* can be opened and the fetches follow one another.                       *)
(***************************************************************************)
\* The bodies GET /api/route answers with: { routes: [...] } for each list of routes,
\* and { error: ... } without routes.
ServerLists == SeqsUpTo(RouteIds, MaxRoutes)

InitPage ==
    /\ page = [routes |-> <<>>, loading |-> TRUE, error |-> Null, selectedRoute |-> "",
               pc |-> "fetching", lastFetch |-> "none"]
    /\ editor = "none"
    /\ phase = "unmounted"
    /\ formRoute = <<>>
    /\ submittedRoute = Undef
    /\ store = <<>>
    /\ puts = NoPuts
    /\ services = <<>>
    /\ selected = ""
    /\ pasted = NoPaste
    /\ submission = NoSubmission
    /\ request = NoRequest
    /\ response = NoResponse
    /\ avgDailyDistance = <<>>
    /\ apiBands = <<>>
    /\ formBands = <<>>
    /\ payloadBands = <<>>
    /\ submittedBands = <<>>

PageFrame ==
    UNCHANGED <<apiVars, normVars, formVars, concVars, servicesVars, pasteVars, submissionVars>>

\* fetchRoutes after its awaits, the response holding routes: setRoutes, then finally.
fetchRoutesLoaded(list) ==
    /\ page.pc = "fetching"
    /\ page' = [page EXCEPT !.routes = list, !.loading = FALSE, !.pc = "idle",
                            !.lastFetch = "loaded"]
    /\ PageFrame

\* fetchRoutes after its awaits, the response holding no routes: setError, then finally.
fetchRoutesWithoutRoutes ==
    /\ page.pc = "fetching"
    /\ page' = [page EXCEPT !.error = Str("Failed to load routes"), !.loading = FALSE,
                            !.pc = "idle", !.lastFetch = "failed"]
    /\ PageFrame

\* fetchRoutes when fetch or res.json() rejects: catch, then finally.
fetchRoutesRejected ==
    /\ page.pc = "fetching"
    /\ page' = [page EXCEPT !.error = Str("Error fetching routes"), !.loading = FALSE,
                            !.pc = "idle", !.lastFetch = "failed"]
    /\ PageFrame

handleOpenUpdate(n) ==
    /\ page.pc = "idle"
    /\ ~page.loading
    /\ n \in 1..Len(page.routes)
    /\ page' = [page EXCEPT !.selectedRoute = page.routes[n], !.pc = "modal"]
    /\ PageFrame

handleCloseUpdate ==
    /\ page.pc = "modal"
    /\ page' = [page EXCEPT !.pc = "idle"]
    /\ PageFrame

\* onUpdated of the form in the modal, after a PUT that succeeded: the modal closes
\* and fetchRoutes runs to its first await.
handleUpdated ==
    /\ page.pc = "modal"
    /\ page' = [page EXCEPT !.loading = TRUE, !.pc = "fetching"]
    /\ PageFrame

NextPage ==
    \/ \E list \in ServerLists : fetchRoutesLoaded(list)
    \/ fetchRoutesWithoutRoutes
    \/ fetchRoutesRejected
    \/ \E n \in 1..MaxRoutes : handleOpenUpdate(n)
    \/ handleCloseUpdate
    \/ handleUpdated

SpecPage == InitPage /\ [][NextPage]_vars

(***************************************************************************)
(* Properties of the services editor.                                      *)
(***************************************************************************)
NoDuplicate(value) == Cardinality({value[i] : i \in 1..Len(value)}) = Len(value)

AllOptionsPresent(value) ==
    \A n \in 1..Len(SERVICE_OPTIONS) : Includes(value, SERVICE_OPTIONS[n])

\* C22: starting from a services list without duplicates, every step of the
\* editor leaves the list without duplicates; a step that lengthens the list
\* appends one member of SERVICE_OPTIONS; and when all eight options are in the
\* list no step lengthens or otherwise changes it except a removal.
C22_ServicesEditor ==
    [][/\ NoDuplicate(services) => NoDuplicate(services')
       /\ Len(services') > Len(services) =>
             \E n \in 1..Len(SERVICE_OPTIONS) : services' = Append(services, SERVICE_OPTIONS[n])
       /\ AllOptionsPresent(services) =>
             \/ services' = services
             \/ \E i \in 1..Len(services) : services' = RemoveAt(services, i)]_vars

\* All eight options are in the list, the two it was loaded with first.
C22_Witness ==
    /\ AllOptionsPresent(services)
    /\ Len(services) = Len(SERVICE_OPTIONS)
    /\ SubSeq(services, 1, 2) = <<"Hotel", "Shop">>

(***************************************************************************)
(* Properties of two updates in flight.                                    *)
(***************************************************************************)
\* The writes that matched a record, in the order they were applied.
AppliedWrites == SelectSeq(puts.order, LAMBDA p : puts.p[p].count > 0)
\* Both updates are addressed to the same id and both have written.
BothWritten ==
    /\ puts.p[1].pc \in {"written", "done"} /\ puts.p[2].pc \in {"written", "done"}
    /\ puts.p[1].id = puts.p[2].id
    /\ Len(puts.order) = 2

\* C21: once two updates addressed to the same id have both written, every record
\* that had the id holds the whole payload of the update whose write was applied
\* last, name, stages, distance bands and starting points all of that one payload,
\* and every other record is as it was.
C21_LastWriteWins ==
    BothWritten =>
        /\ Len(store) = Len(puts.before)
        /\ \A i \in 1..Len(store) :
              IF puts.before[i].routeId = Str(puts.p[1].id) /\ AppliedWrites # <<>>
              THEN \A last \in {AppliedWrites[Len(AppliedWrites)]} :
                       /\ WrittenFrom(store[i], RouteIn(puts.p[last].body))
                       /\ store[i].routeId
                             = JsNullish(Get(RouteIn(puts.p[last].body), "route_id"),
                                         Str(puts.p[last].id))
              ELSE store[i] = puts.before[i]

\* C21 witness: two updates of the same id with different payloads have both
\* written a record, the second before the first had answered.
C21_Witness ==
    /\ BothWritten
    /\ puts.p[1].pc = "written" /\ puts.p[2].pc = "written"
    /\ Len(AppliedWrites) = 2
    /\ RouteIn(puts.p[1].body) # RouteIn(puts.p[2].body)
    /\ Get(RouteIn(puts.p[1].body), "route_name") # Get(RouteIn(puts.p[2].body), "route_name")

(***************************************************************************)
(* Properties of the import box.                                           *)
(***************************************************************************)
\* The pasted texts that are not JSON: empty, cut short, a missing colon, a trailing
\* comma, and text after the value.
NotJson ==
    {<<>>,
     <<P("{")>>,
     <<P("{"), S("route_id"), P(":"), S("r2")>>,
     <<P("{"), S("route_id"), S("r2"), P("}")>>,
     <<P("{"), S("route_id"), P(":"), S("r2"), P(","), P("}")>>,
     <<P("{"), S("route_name"), P(":"), S("N2"), P("}"), P("}")>>,
     <<P("["), P("]"), Tok("junk", "x")>>}

\* C23: a step in which handleJsonPaste is handed a text that is not JSON
\* leaves route_id, route_name and stages of the form as they were, and the
\* handler raises no error.
C23_ParseFailureIgnored ==
    [][(pasted' # pasted /\ pasted'.text \in NotJson) =>
          /\ formRoute' = formRoute
          /\ ~pasted'.raised]_vars

\* A text that is not JSON was pasted over a form that held values and a stage.
C23_Witness ==
    /\ pasted.text \in NotJson
    /\ Get(formRoute, "route_id") = Str("r1")
    /\ Len(Get(formRoute, "stages").a) > 0

(***************************************************************************)
(* Properties of the submission status.                                    *)
(***************************************************************************)
\* C24: once onSubmit has returned, the submission status is not "loading",
\* whatever the target route id, the empty one included.
C24_NeverLeftLoading ==
    submission.pc = "returned" => submission.submissionStatus # "loading"

(***************************************************************************)
(* Properties of the routes page.                                          *)
(***************************************************************************)
\* C30: when the most recent fetch of the route list that completed loaded
\* the routes, error is null; and once a fetch has completed and none is in
\* flight, loading is false.
C30_FetchSettled ==
    /\ page.lastFetch = "loaded" => page.error = Null
    /\ (page.lastFetch # "none" /\ page.pc # "fetching") => ~page.loading

\* After every fetch, loaded or not, loading is false.
C30_LoadingCleared ==
    (page.lastFetch # "none" /\ page.pc # "fetching") => ~page.loading

====
